---- MODULE Spec2Model ----
(***************************************************************************)
(* Contact-enrichment pipeline of the news scraper: the RocketReach lookup *)
(* client (retry, backoff, rate limit), the orchestrator                   *)
(* enrich_with_emails with its per-run deduplication, and the merge in     *)
(* main that joins articles to contacts.                                   *)
(*                                                                         *)
(* Strings are sequences of tokens; a token is an atomic piece of text     *)
(* ("www.", "nyt.com", " ", "_"), so that strip, replace and concatenation *)
(* are computed on the text and not assumed.  Confidences are whole        *)
(* hundredths (87 stands for 0.87).                                        *)
(***************************************************************************)
EXTENDS Integers, Sequences, FiniteSets, TLC

VARIABLES
    \* ---- run inputs (command line, environment, extractor output)
    articles,           \* list of article dicts produced by the extractor
    no_enrich,          \* args.no_enrich
    smtp_check,         \* args.smtp_check
    api_key,            \* TRUE iff ROCKETREACH_API_KEY is set
    service,            \* the answers the lookup service may give during this run
    \* ---- main / enrich_with_emails
    pc,                 \* position of main: "main", "enrich", "lookup", "collect", "merge", "export", "exit", "raised"
    idx,                \* index of the article the enrich loop is at (1-based)
    processed_authors,  \* set of author_key strings
    contacts,           \* list of contact dicts
    contact_info,       \* local of enrich_with_emails: what the lookup returned
    lookups,            \* history: the (author, domain) arguments of every lookup call issued
    enriched_articles,  \* list of enriched rows built by main
    \* ---- one call of lookup_email_by_name_and_domain
    lpc,                \* "idle", "call", "request", "done"
    full_name,          \* argument
    domain,             \* argument
    attempt,            \* loop variable of _make_request
    response,           \* local of _make_request: the last response received
    trace,              \* history of this call: requests issued and sleeps performed, in order
    lresult,            \* what the call returned
    lraised,            \* exception that escaped the call ("" if none)
    \* ---- the export stage of main
    csv_written,        \* what write_articles_csv returned
    report_written,     \* what write_summary_report returned
    exit_code,          \* what main returned (-1: it has not returned)
    completed,          \* TRUE iff "Pipeline completed" was logged
    artifacts,          \* names of the files in args.output_dir
    report,             \* what scraping_report.txt says
    \* ---- one call of validate_email_full
    vpc,                \* "idle", "call", "done"
    vemail,             \* argument email
    vsmtp,              \* argument smtp
    vnetwork,           \* what DNS and the mail server answer during this call
    vresult,            \* what the call returned
    vstages,            \* history of this call: the stages that ran, in order
    \* ---- calls of the writers of utils.exporters
    wrecords,           \* argument records (articles for write_joined_csv and write_summary_report)
    wcontacts,          \* argument contacts (records for write_contacts_csv)
    wdir,               \* os.path.dirname of argument path; output_dir for write_summary_report
    wdisk,              \* the directories that exist, the file at path, whether the report exists
    wreturn,            \* what the last call returned ("none" before the first call)
    wcalls,             \* history: the writers called, in order
    wappended,          \* history: the records handed to append_articles_csv so far, in order
    \* ---- the HTTP wrapper (api_server.py)
    scraping_status,    \* scraping_status["state"]: "idle", "running", "done", "error"
    handler,            \* per request: position of the run_scraper handler
    thread,             \* per request: position of its background thread
    returncode,         \* per request: returncode of its subprocess (-1: not exited)
    csv_run             \* which run wrote ./output/enriched_articles.csv (-1: no file, 0: an earlier run)

vars == <<articles, no_enrich, smtp_check, api_key, service, pc, idx, processed_authors,
          contacts, contact_info, lookups, enriched_articles,
          lpc, full_name, domain, attempt, response, trace, lresult, lraised,
          csv_written, report_written, exit_code, completed, artifacts, report,
          vpc, vemail, vsmtp, vnetwork, vresult, vstages,
          wrecords, wcontacts, wdir, wdisk, wreturn, wcalls, wappended,
          scraping_status, handler, thread, returncode, csv_run>>

runVars == <<articles, no_enrich, smtp_check, api_key, service>>
mainVars == <<pc, idx, processed_authors, contacts, contact_info, lookups, enriched_articles>>
callVars == <<lpc, full_name, domain, attempt, response, trace, lresult, lraised>>
exportVars == <<csv_written, report_written, exit_code, completed, artifacts, report>>
validateVars == <<vpc, vemail, vsmtp, vnetwork, vresult, vstages>>
writerVars == <<wrecords, wcontacts, wdir, wdisk, wreturn, wcalls, wappended>>
serverVars == <<scraping_status, handler, thread, returncode, csv_run>>

-----------------------------------------------------------------------------
(* Text helpers                                                            *)

\* str.replace(tok, ''): every occurrence is removed, wherever it stands
Replace(s, tok) == SelectSeq(s, LAMBDA t : t # tok)

RECURSIVE LStrip(_)
LStrip(s) == IF s # <<>> /\ Head(s) = " " THEN LStrip(Tail(s)) ELSE s

RECURSIVE RStrip(_)
RStrip(s) == IF s # <<>> /\ s[Len(s)] = " " THEN RStrip(SubSeq(s, 1, Len(s) - 1)) ELSE s

\* str.strip()
Strip(s) == RStrip(LStrip(s))

Min(a, b) == IF a < b THEN a ELSE b

\* a backoff that grows by two seconds per attempt
TimesTwo(n) == 2 * n

RECURSIVE Pow2(_)
Pow2(n) == IF n = 0 THEN 1 ELSE 2 * Pow2(n - 1)

Digits == {"0", "1", "2", "3", "4", "5", "6", "7", "8", "9"}

DigitVal(c) ==
    CASE c = "0" -> 0 [] c = "1" -> 1 [] c = "2" -> 2 [] c = "3" -> 3 [] c = "4" -> 4
      [] c = "5" -> 5 [] c = "6" -> 6 [] c = "7" -> 7 [] c = "8" -> 8 [] c = "9" -> 9

RECURSIVE ParseDigits(_, _)
ParseDigits(s, acc) ==
    IF s = <<>> THEN [ok |-> TRUE, v |-> acc]
    ELSE IF Head(s) \in Digits THEN ParseDigits(Tail(s), 10 * acc + DigitVal(Head(s)))
    ELSE [ok |-> FALSE, v |-> 0]

\* int(text) on a header value given as its characters: an optional sign and
\* at least one digit, anything else is a ValueError (ok = FALSE)
ParseInt(s) ==
    IF s = <<>> THEN [ok |-> FALSE, v |-> 0]
    ELSE IF Head(s) = "-" THEN
        IF Tail(s) = <<>> THEN [ok |-> FALSE, v |-> 0]
        ELSE LET p == ParseDigits(Tail(s), 0) IN [ok |-> p.ok, v |-> 0 - p.v]
    ELSE ParseDigits(s, 0)

-----------------------------------------------------------------------------
(* Values                                                                  *)

NotFound == <<"not found">>
Empty == <<>>

\* Python None as returned by a function that returns Optional[Dict]
None == [kind |-> "None"]

\* a JSON number (hundredths) or JSON null
Num(n) == [null |-> FALSE, v |-> n]
Null == [null |-> TRUE, v |-> 0]

Contact(name, email, confidence, dom, title, company) ==
    [kind |-> "contact", full_name |-> name, email |-> email, confidence |-> confidence,
     source |-> <<"rocketreach">>, domain |-> dom, title |-> title, company |-> company,
     validated |-> FALSE, syntax_valid |-> FALSE, mx_valid |-> FALSE]

\* the record the client returns when it has nothing: lines 118-126 and 153-161
Sentinel(name, dom) == Contact(name, NotFound, Num(0), dom, NotFound, NotFound)

-----------------------------------------------------------------------------
(* The lookup service as the client sees it                                *)

\* one candidate of person['emails']; dict = FALSE is a candidate that is not
\* a JSON object (a bare string), on which .get raises AttributeError
EmailInfo(has_email, email, has_confidence, confidence) ==
    [dict |-> TRUE, has_email |-> has_email, email |-> email,
     has_confidence |-> has_confidence, confidence |-> confidence]
BareString == [dict |-> FALSE, has_email |-> FALSE, email |-> Empty,
               has_confidence |-> FALSE, confidence |-> Null]

Jane == <<"jane", "@", "nyt", ".", "com">>
Desk == <<"desk", "@", "nyt", ".", "com">>

Person(emails, has_title, title, has_company, company) ==
    [truthy |-> TRUE, emails |-> emails, has_title |-> has_title, current_title |-> title,
     has_company |-> has_company, current_company |-> company]
NoPerson == [truthy |-> FALSE, emails |-> <<>>, has_title |-> FALSE, current_title |-> Empty,
             has_company |-> FALSE, current_company |-> Empty]

\* a decoded JSON body; empty = TRUE is the body {}
Body(person) == [kind |-> "dict", empty |-> FALSE, person |-> person]
EmptyBody == [kind |-> "dict", empty |-> TRUE, person |-> NoPerson]
NoBody == [kind |-> "None", empty |-> TRUE, person |-> NoPerson]

Bodies ==
    { EmptyBody,
      Body(NoPerson),
      Body(Person(<<>>, TRUE, <<"Editor">>, TRUE, <<"NYT">>)),
      Body(Person(<<EmailInfo(TRUE, Jane, TRUE, Num(87)), EmailInfo(TRUE, Desk, TRUE, Num(50))>>,
                  TRUE, <<"Editor">>, TRUE, <<"NYT">>)),
      Body(Person(<<EmailInfo(TRUE, Jane, TRUE, Null)>>, TRUE, <<"Editor">>, TRUE, <<"NYT">>)),
      Body(Person(<<EmailInfo(TRUE, Jane, FALSE, Null)>>, FALSE, Empty, FALSE, Empty)),
      Body(Person(<<BareString>>, TRUE, <<"Editor">>, TRUE, <<"NYT">>)) }

\* values of the Retry-After header, as characters; the last two are not
\* usable delays (an HTTP date, a negative number)
RetryAfterHeaders ==
    { <<"0">>, <<"6", "0">>, <<"3", "6", "0", "0">>, <<"3", "6", "0", "1">>,
      <<"7", "2", "0", "0">>, <<"W", "e", "d">>, <<"-", "5">> }

Response(status, has_retry_after, retry_after, body) ==
    [exc |-> FALSE, status |-> status, has_retry_after |-> has_retry_after,
     retry_after |-> retry_after, body |-> body]
\* session.get raised requests.exceptions.RequestException (timeout, connection error)
TransportError == [exc |-> TRUE, status |-> 0, has_retry_after |-> FALSE,
                   retry_after |-> Empty, body |-> NoBody]

\* no response received yet in this call
NoResponse == [exc |-> FALSE, status |-> 0, has_retry_after |-> FALSE,
               retry_after |-> Empty, body |-> NoBody]

OtherStatuses == {404, 500}

Outcomes ==
    {TransportError}
    \cup {Response(200, FALSE, Empty, b) : b \in Bodies}
    \cup {Response(429, TRUE, h, NoBody) : h \in RetryAfterHeaders}
    \cup {Response(429, FALSE, Empty, NoBody)}
    \cup {Response(s, FALSE, Empty, NoBody) : s \in OtherStatuses}

\* the answers drawn during a whole run of the pipeline: one of each kind the
\* client tells apart
RunOutcomes ==
    {TransportError}
    \cup {Response(200, FALSE, Empty, b) : b \in Bodies \ {EmptyBody}}
    \cup {Response(429, FALSE, Empty, NoBody),
          Response(429, TRUE, <<"3", "6", "0", "1">>, NoBody),
          Response(429, TRUE, <<"W", "e", "d">>, NoBody),
          Response(500, FALSE, Empty, NoBody)}

\* a service that is up: it finds the person or answers with a server error
PlainOutcomes ==
    {Response(200, FALSE, Empty, b) : b \in {x \in Bodies : x.person.truthy /\ Len(x.person.emails) = 2}}
    \cup {Response(500, FALSE, Empty, NoBody)}

-----------------------------------------------------------------------------
(* RocketReachAPI                                                          *)

max_retries == 3
max_wait == 300
long_wait == 3600
default_retry_after == 60

\* the value of the Retry-After header as _handle_rate_limit reads it (line 35)
RetryAfter(resp) ==
    IF resp.has_retry_after THEN ParseInt(resp.retry_after)
    ELSE [ok |-> TRUE, v |-> default_retry_after]

\* _handle_rate_limit with the wait not capped
handle_rate_limit_uncapped(resp) ==
    IF resp.status = 429 THEN
        LET parsed == RetryAfter(resp)
            retry_after == parsed.v
        IN  IF ~parsed.ok THEN [raised |-> "ValueError", retry |-> FALSE, sleep |-> <<>>]
            ELSE IF retry_after > long_wait THEN [raised |-> "", retry |-> FALSE, sleep |-> <<>>]
            ELSE IF retry_after < 0 THEN [raised |-> "ValueError", retry |-> FALSE, sleep |-> <<>>]
            ELSE [raised |-> "", retry |-> TRUE, sleep |-> <<retry_after>>]
    ELSE [raised |-> "", retry |-> FALSE, sleep |-> <<>>]

\* _handle_rate_limit without the long-wait check of lines 38-40
handle_rate_limit_no_ceiling(resp) ==
    IF resp.status = 429 THEN
        LET parsed == RetryAfter(resp)
            wait_time == Min(parsed.v, max_wait)
        IN  IF ~parsed.ok THEN [raised |-> "ValueError", retry |-> FALSE, sleep |-> <<>>]
            ELSE IF wait_time < 0 THEN [raised |-> "ValueError", retry |-> FALSE, sleep |-> <<>>]
            ELSE [raised |-> "", retry |-> TRUE, sleep |-> <<wait_time>>]
    ELSE [raised |-> "", retry |-> FALSE, sleep |-> <<>>]

\* _handle_rate_limit: retry = the returned bool, sleep = the time.sleep calls
\* made, raised = the exception that left the method ("" if none): int() of a
\* header that is no integer and time.sleep of a negative number raise ValueError
handle_rate_limit(resp) ==
    IF resp.status = 429 THEN
        LET parsed == RetryAfter(resp)
            retry_after == parsed.v
            wait_time == Min(retry_after, max_wait)
        IN  IF ~parsed.ok THEN [raised |-> "ValueError", retry |-> FALSE, sleep |-> <<>>]
            ELSE IF retry_after > long_wait THEN [raised |-> "", retry |-> FALSE, sleep |-> <<>>]
            ELSE IF wait_time < 0 THEN [raised |-> "ValueError", retry |-> FALSE, sleep |-> <<>>]
            ELSE [raised |-> "", retry |-> TRUE, sleep |-> <<wait_time>>]
    ELSE [raised |-> "", retry |-> FALSE, sleep |-> <<>>]

\* one iteration of the for loop of _make_request on the service's answer:
\* next = "return" (result), "continue" (after the sleeps) or "raise" (raised)
make_request_iter(att, outcome) ==
    IF outcome.exc THEN
        IF att < max_retries - 1
        THEN [next |-> "continue", result |-> NoBody, sleep |-> <<Pow2(att)>>, raised |-> ""]
        ELSE [next |-> "return", result |-> NoBody, sleep |-> <<>>, raised |-> ""]
    ELSE IF outcome.status = 200
        THEN [next |-> "return", result |-> outcome.body, sleep |-> <<>>, raised |-> ""]
    ELSE LET h == handle_rate_limit(outcome) IN
        IF h.raised # "" THEN [next |-> "raise", result |-> NoBody, sleep |-> <<>>, raised |-> h.raised]
        ELSE IF h.retry THEN [next |-> "continue", result |-> NoBody, sleep |-> h.sleep, raised |-> ""]
        ELSE [next |-> "return", result |-> NoBody, sleep |-> <<>>, raised |-> ""]

\* line 102
clean_domain(dom) == Replace(Replace(Replace(dom, "www."), "http://"), "https://")

\* lines 129-149: the record built from a matched person
person_record(name, cdom, person) ==
    LET has_emails == person.emails # <<>>
        email_info == person.emails[1]
        email == IF has_emails /\ email_info.has_email THEN email_info.email ELSE Empty
        confidence == IF has_emails /\ email_info.has_confidence
                      THEN email_info.confidence ELSE Num(0)
    IN  IF has_emails /\ ~email_info.dict
        THEN [raised |-> "AttributeError", value |-> None]
        ELSE [raised |-> "", value |->
                Contact(name, email, confidence, cdom,
                        IF person.has_title THEN person.current_title ELSE Empty,
                        IF person.has_company THEN person.current_company ELSE Empty)]

\* the lookup returning None, as its docstring says, when there is no result
lookup_result_none(name, cdom, result) ==
    IF result.kind = "None" \/ result.empty
    THEN [raised |-> "", value |-> None]
    ELSE IF result.person.truthy THEN person_record(name, cdom, result.person)
    ELSE [raised |-> "", value |-> None]

\* lines 115-161: the record built from what _make_request returned
lookup_result(name, cdom, result) ==
    IF result.kind = "None" \/ result.empty
    THEN [raised |-> "", value |-> Sentinel(name, cdom)]
    ELSE IF result.person.truthy THEN person_record(name, cdom, result.person)
    ELSE [raised |-> "", value |-> Sentinel(name, cdom)]

ExceptionClasses == {"ValueError", "AttributeError", "TypeError"}

\* the convenience function with its first except clause only
convenience_catches_value_error(exc) == exc = "ValueError"

\* lines 178-183 of the convenience function: the except clauses
convenience_catches(exc) == exc = "ValueError" \/ exc \in ExceptionClasses

\* the convenience function returns to its caller: the value, None for a
\* caught exception, or the exception itself if no clause catches it
Finish(out) ==
    /\ lpc' = "done"
    /\ IF out.raised = "" THEN lresult' = out.value /\ lraised' = ""
       ELSE IF convenience_catches(out.raised) THEN lresult' = None /\ lraised' = ""
       ELSE lresult' = None /\ lraised' = out.raised

RequestEvent(outcome) == [ev |-> "request", n |-> outcome.status]
SleepEvents(sleep) == [k \in 1..Len(sleep) |-> [ev |-> "sleep", n |-> sleep[k]]]

\* the guard of line 97 testing the name only
missing_name(name, dom) == name = Empty

\* line 97: not full_name or not domain
missing_argument(name, dom) == name = Empty \/ dom = Empty

\* lookup_email_by_name_and_domain up to the first request: RocketReachAPI()
\* (lines 21-23), the guard (lines 97-99) and entry into _make_request
LookupCall ==
    /\ lpc = "call"
    /\ IF ~api_key THEN Finish([raised |-> "ValueError", value |-> None]) /\ attempt' = attempt
       ELSE IF missing_argument(full_name, domain)
       THEN Finish([raised |-> "", value |-> None]) /\ attempt' = attempt
       ELSE lpc' = "request" /\ attempt' = 0 /\ UNCHANGED <<lresult, lraised>>
    /\ UNCHANGED <<full_name, domain, response, trace>>
    /\ UNCHANGED <<runVars, mainVars>>
    /\ UNCHANGED <<exportVars, validateVars, writerVars, serverVars>>

\* one attempt of _make_request: the request, the service's answer, the sleep
\* the answer leads to, and, when the loop ends here, the return of the call
RequestAttempt ==
    /\ lpc = "request"
    /\ \E outcome \in service :
        LET it == make_request_iter(attempt, outcome) IN
        /\ response' = IF outcome.exc THEN response ELSE outcome
        /\ trace' = trace \o <<RequestEvent(outcome)>> \o SleepEvents(it.sleep)
        /\ CASE it.next = "continue" ->
                  IF attempt + 1 < max_retries
                  THEN attempt' = attempt + 1 /\ UNCHANGED <<lpc, lresult, lraised>>
                  ELSE attempt' = attempt
                       /\ Finish(lookup_result(full_name, clean_domain(domain), NoBody))
             [] it.next = "return" ->
                  attempt' = attempt
                  /\ Finish(lookup_result(full_name, clean_domain(domain), it.result))
             [] it.next = "raise" ->
                  attempt' = attempt /\ Finish([raised |-> it.raised, value |-> None])
    /\ UNCHANGED <<full_name, domain>>
    /\ UNCHANGED <<runVars, mainVars>>
    /\ UNCHANGED <<exportVars, validateVars, writerVars, serverVars>>

-----------------------------------------------------------------------------
(* Email validation (utils/email_validation.py)                            *)

LowerTok(t) == CASE t = "Jane" -> "jane" [] t = "NYT" -> "nyt" [] OTHER -> t
\* str.lower()
Lower(s) == [k \in 1..Len(s) |-> LowerTok(s[k])]

Count(s, tok) == Len(SelectSeq(s, LAMBDA t : t = tok))
RECURSIVE IndexOf(_, _)
IndexOf(s, tok) == IF s = <<>> THEN 1 ELSE IF Head(s) = tok THEN 1 ELSE 1 + IndexOf(Tail(s), tok)
\* email.split('@')[1]
DomainPart(email) ==
    LET rest == SubSeq(email, IndexOf(email, "@") + 1, Len(email))
    IN  SubSeq(rest, 1, IndexOf(rest, "@") - 1)
LocalPart(email) == SubSeq(email, 1, IndexOf(email, "@") - 1)

\* a shape check that lets a domain without a dot through
WellFormedDotless(email) ==
    /\ Count(email, "@") = 1
    /\ Count(email, " ") = 0
    /\ LocalPart(email) # <<>>
    /\ DomainPart(email) # <<>>

\* the shape email-validator accepts: one "@", a local part, a domain of
\* non-empty labels with at least one dot, no blank
WellFormed(email) ==
    /\ Count(email, "@") = 1
    /\ Count(email, " ") = 0
    /\ LocalPart(email) # <<>>
    /\ LET d == DomainPart(email) IN
        /\ d # <<>> /\ Count(d, ".") >= 1
        /\ Head(d) # "." /\ d[Len(d)] # "."
        /\ \A k \in 1..(Len(d) - 1) : ~(d[k] = "." /\ d[k + 1] = ".")

\* what the network answers during one validation
MxAnswers == {"records", "NXDOMAIN", "NoAnswer", "Timeout"}
SmtpAnswers == {"250", "550", "SMTPException", "timeout"}
ValidationEnvs ==
    [deliverable : BOOLEAN, mx : MxAnswers, smtp_mx : {"records", "Timeout"}, smtp : SmtpAnswers]

\* validate_email_syntax: validate_email of email-validator raises
\* EmailNotValidError for a malformed address and for an undeliverable domain
validate_email_syntax(email, env) == WellFormed(email) /\ env.deliverable

\* validate_mx_record: resolve returns a non-empty answer or raises
validate_mx_record(dom, env) == env.mx = "records"

\* validate_smtp answering None to every code other than 250
validate_smtp_unknown(email, env) ==
    IF Count(email, "@") = 0 THEN "None"
    ELSE IF env.smtp_mx # "records" THEN "None"
    ELSE IF env.smtp \in {"SMTPException", "timeout"} THEN "None"
    ELSE IF env.smtp = "250" THEN "True" ELSE "None"

\* validate_smtp: "True", "False" or "None"
validate_smtp(email, env) ==
    IF Count(email, "@") = 0 THEN "None"
    ELSE IF env.smtp_mx # "records" THEN "None"
    ELSE IF env.smtp \in {"SMTPException", "timeout"} THEN "None"
    ELSE IF env.smtp = "250" THEN "True" ELSE "False"

\* no result yet
NoResult ==
    [syntax_valid |-> FALSE, mx_valid |-> FALSE, smtp_valid |-> "None", valid |-> FALSE,
     has_error |-> FALSE, error |-> ""]

\* line 109: the MX stage runs only after a passed syntax stage
mx_stage_runs(syntax_valid) == syntax_valid

\* line 115 with the opt-in dropped: the probe runs whenever both stages passed
smtp_stage_runs_unasked(smtp, syntax_valid, mx_valid) == syntax_valid /\ mx_valid

\* line 115: the SMTP stage runs only if asked for and both stages passed
smtp_stage_runs(smtp, syntax_valid, mx_valid) == smtp /\ syntax_valid /\ mx_valid

\* line 119 asking for a confirmed mailbox
overall_valid_confirmed(syntax_valid, mx_valid, smtp, smtp_valid) ==
    syntax_valid /\ mx_valid /\ (IF smtp THEN smtp_valid = "True" ELSE TRUE)

\* line 119
overall_valid(syntax_valid, mx_valid, smtp, smtp_valid) ==
    syntax_valid /\ mx_valid /\ (IF smtp THEN smtp_valid # "False" ELSE TRUE)

\* lines 128-134 with the MX test first
error_reason_mx_first(valid, syntax_valid, mx_valid, smtp, smtp_valid) ==
    IF valid THEN [has_error |-> FALSE, error |-> ""]
    ELSE IF ~mx_valid THEN [has_error |-> TRUE, error |-> "No MX record found"]
    ELSE IF ~syntax_valid THEN [has_error |-> TRUE, error |-> "Invalid email syntax"]
    ELSE IF smtp /\ smtp_valid = "False"
    THEN [has_error |-> TRUE, error |-> "SMTP validation failed"]
    ELSE [has_error |-> FALSE, error |-> ""]

\* lines 128-134: the "error" key of the result
error_reason(valid, syntax_valid, mx_valid, smtp, smtp_valid) ==
    IF valid THEN [has_error |-> FALSE, error |-> ""]
    ELSE IF ~syntax_valid THEN [has_error |-> TRUE, error |-> "Invalid email syntax"]
    ELSE IF ~mx_valid THEN [has_error |-> TRUE, error |-> "No MX record found"]
    ELSE IF smtp /\ smtp_valid = "False"
    THEN [has_error |-> TRUE, error |-> "SMTP validation failed"]
    ELSE [has_error |-> FALSE, error |-> ""]

\* lines 92-99: the result for an empty email
EmptyEmailResult ==
    [syntax_valid |-> FALSE, mx_valid |-> FALSE, smtp_valid |-> "None", valid |-> FALSE,
     has_error |-> TRUE, error |-> "Invalid email format"]

\* line 102
clean_email(email0) == Lower(Strip(email0))

validate_email_full(email0, smtp, env) ==
    IF email0 = Empty THEN EmptyEmailResult
    ELSE
        LET email == clean_email(email0)
            syntax_valid == validate_email_syntax(email, env)
            mx_valid == IF mx_stage_runs(syntax_valid)
                        THEN validate_mx_record(DomainPart(email), env) ELSE FALSE
            smtp_valid == IF smtp_stage_runs(smtp, syntax_valid, mx_valid)
                          THEN validate_smtp(email, env) ELSE "None"
            valid == overall_valid(syntax_valid, mx_valid, smtp, smtp_valid)
            reason == error_reason(valid, syntax_valid, mx_valid, smtp, smtp_valid)
        IN  [syntax_valid |-> syntax_valid, mx_valid |-> mx_valid, smtp_valid |-> smtp_valid,
             valid |-> valid, has_error |-> reason.has_error, error |-> reason.error]

\* validate_email_full is entered: the guard of lines 92-99, the cleaning and
\* the syntax stage (lines 102-105)
ValidateSyntax ==
    /\ vpc = "call"
    /\ IF vemail = Empty
       THEN vresult' = EmptyEmailResult /\ vpc' = "done" /\ vstages' = vstages
       ELSE /\ vresult' = [NoResult EXCEPT
                              !.syntax_valid = validate_email_syntax(clean_email(vemail), vnetwork)]
            /\ vstages' = Append(vstages, "syntax")
            /\ vpc' = "mx"
    /\ UNCHANGED <<vemail, vsmtp, vnetwork>>
    /\ UNCHANGED <<runVars, mainVars, callVars, exportVars, writerVars, serverVars>>

\* lines 108-111: the MX stage
ValidateMx ==
    /\ vpc = "mx"
    /\ IF mx_stage_runs(vresult.syntax_valid)
       THEN /\ vresult' = [vresult EXCEPT
                              !.mx_valid = validate_mx_record(DomainPart(clean_email(vemail)),
                                                              vnetwork)]
            /\ vstages' = Append(vstages, "mx")
       ELSE UNCHANGED <<vresult, vstages>>
    /\ vpc' = "smtp"
    /\ UNCHANGED <<vemail, vsmtp, vnetwork>>
    /\ UNCHANGED <<runVars, mainVars, callVars, exportVars, writerVars, serverVars>>

\* lines 114-116: the optional SMTP stage
ValidateSmtp ==
    /\ vpc = "smtp"
    /\ IF smtp_stage_runs(vsmtp, vresult.syntax_valid, vresult.mx_valid)
       THEN /\ vresult' = [vresult EXCEPT
                              !.smtp_valid = validate_smtp(clean_email(vemail), vnetwork)]
            /\ vstages' = Append(vstages, "smtp")
       ELSE UNCHANGED <<vresult, vstages>>
    /\ vpc' = "verdict"
    /\ UNCHANGED <<vemail, vsmtp, vnetwork>>
    /\ UNCHANGED <<runVars, mainVars, callVars, exportVars, writerVars, serverVars>>

\* lines 119-136: the verdict, the error reason, the return
ValidateReturn ==
    /\ vpc = "verdict"
    /\ LET valid == overall_valid(vresult.syntax_valid, vresult.mx_valid, vsmtp,
                                  vresult.smtp_valid)
           reason == error_reason(valid, vresult.syntax_valid, vresult.mx_valid, vsmtp,
                                  vresult.smtp_valid)
       IN  vresult' = [vresult EXCEPT !.valid = valid, !.has_error = reason.has_error,
                                      !.error = reason.error]
    /\ vpc' = "done"
    /\ UNCHANGED <<vemail, vsmtp, vnetwork, vstages>>
    /\ UNCHANGED <<runVars, mainVars, callVars, exportVars, writerVars, serverVars>>

-----------------------------------------------------------------------------
(* scripts/run_scraper.py: enrich_with_emails and the merge in main        *)

Article(i, author, source_domain) ==
    [url |-> <<"u", ToString(i)>>, author |-> author, source_domain |-> source_domain]

\* line 129
author_key(author, dom) == author \o <<"_">> \o dom

\* lines 196-201 of main: enrichment unless --no-enrich
MainStart ==
    /\ pc = "main"
    /\ pc' = IF no_enrich THEN "merge" ELSE "enrich"
    /\ UNCHANGED <<idx, processed_authors, contacts, contact_info, lookups, enriched_articles>>
    /\ UNCHANGED <<runVars, callVars>>
    /\ UNCHANGED <<exportVars, validateVars, writerVars, serverVars>>

\* one iteration of the for loop of enrich_with_emails up to the lookup call
\* (lines 121-136): skip, or mark the key and call the lookup
EnrichNext ==
    /\ pc = "enrich"
    /\ idx <= Len(articles)
    /\ LET article == articles[idx]
           author == Strip(article.author)
           dom == Strip(article.source_domain)
       IN  IF author = Empty \/ dom = Empty
           THEN idx' = idx + 1
                /\ UNCHANGED <<pc, processed_authors, lookups, callVars>>
           ELSE IF author_key(author, dom) \in processed_authors
           THEN idx' = idx + 1
                /\ UNCHANGED <<pc, processed_authors, lookups, callVars>>
           ELSE /\ processed_authors' = processed_authors \cup {author_key(author, dom)}
                /\ lookups' = Append(lookups, [name |-> author, domain |-> dom])
                /\ pc' = "lookup"
                /\ lpc' = "call" /\ full_name' = author /\ domain' = dom
                /\ attempt' = 0 /\ response' = NoResponse /\ trace' = <<>>
                /\ lresult' = None /\ lraised' = ""
                /\ idx' = idx
    /\ UNCHANGED <<contacts, contact_info, enriched_articles>>
    /\ UNCHANGED runVars
    /\ UNCHANGED <<exportVars, validateVars, writerVars, serverVars>>

\* lines 138-148: contact_info with the validator's flags merged in
with_validation(contact, validation_result) ==
    [contact EXCEPT !.validated = TRUE,
                         !.syntax_valid = validation_result.syntax_valid,
                         !.mx_valid = validation_result.mx_valid]

\* line 136: the lookup returns into contact_info and its frame is gone; an
\* exception leaving the lookup leaves enrich_with_emails and main too
EnrichLookupReturned ==
    /\ pc = "lookup"
    /\ lpc = "done"
    /\ pc' = IF lraised # "" THEN "raised" ELSE "collect"
    /\ contact_info' = lresult
    /\ lpc' = "idle" /\ attempt' = 0 /\ response' = NoResponse /\ trace' = <<>>
    /\ lresult' = None /\ lraised' = ""
    /\ UNCHANGED <<full_name, domain>>
    /\ UNCHANGED <<idx, processed_authors, contacts, lookups, enriched_articles>>
    /\ UNCHANGED runVars
    /\ UNCHANGED <<exportVars, validateVars, writerVars, serverVars>>

\* the test of line 141 without the comparison with the sentinel
is_nonempty_address(address) == address # Empty

\* line 141: email and email != 'not found'
is_real_address(address) == address # Empty /\ address # NotFound

\* a collection that puts the new contact in front
collect_in_front(cs, contact) == <<contact>> \o cs

\* line 148: contacts.append(contact_info)
collect(cs, contact) == Append(cs, contact)

\* lines 138-151: validate a real address, collect the contact
EnrichCollect ==
    /\ pc = "collect"
    /\ pc' = "enrich"
    /\ idx' = idx + 1
    /\ IF contact_info.kind = "None" THEN contacts' = contacts
       ELSE IF is_real_address(contact_info.email)
       THEN \E env \in ValidationEnvs :
               contacts' = collect(contacts,
                   with_validation(contact_info,
                                   validate_email_full(contact_info.email, smtp_check, env)))
       ELSE contacts' = collect(contacts, contact_info)
    /\ contact_info' = None
    /\ UNCHANGED <<processed_authors, lookups, enriched_articles>>
    /\ UNCHANGED <<runVars, callVars>>
    /\ UNCHANGED <<exportVars, validateVars, writerVars, serverVars>>

\* line 153: the loop is over, enrich_with_emails returns contacts to main
EnrichReturn ==
    /\ pc = "enrich"
    /\ idx > Len(articles)
    /\ pc' = "merge"
    /\ UNCHANGED <<idx, processed_authors, contacts, contact_info, lookups, enriched_articles>>
    /\ UNCHANGED <<runVars, callVars>>
    /\ UNCHANGED <<exportVars, validateVars, writerVars, serverVars>>

\* int(confidence_raw * 100) on IEEE doubles, for confidence_raw the double
\* nearest h/100: the product falls just below the integer for 0.29, 0.57, 0.58
IntTimes100(h) == IF h \in {29, 57, 58} THEN h - 1 ELSE h

\* line 227
confidence_percent(h) == IF h > 0 THEN <<ToString(IntTimes100(h)), "%">> ELSE <<"0", "%">>

\* the loop of lines 212-216 without its break: the last contact that matches
RECURSIVE LastMatch(_, _, _, _)
LastMatch(cs, k, article_author, article_domain) ==
    IF k > Len(cs) THEN 0
    ELSE LET later == LastMatch(cs, k + 1, article_author, article_domain)
         IN  IF later # 0 THEN later
             ELSE IF Strip(cs[k].full_name) = article_author
                        /\ Strip(cs[k].domain) = article_domain
             THEN k ELSE 0

\* lines 210-216: index of the first contact that matches, 0 if none
RECURSIVE FirstMatch(_, _, _, _)
FirstMatch(cs, k, article_author, article_domain) ==
    IF k > Len(cs) THEN 0
    ELSE IF Strip(cs[k].full_name) = article_author /\ Strip(cs[k].domain) = article_domain
    THEN k
    ELSE FirstMatch(cs, k + 1, article_author, article_domain)

matching_contact(cs, article) ==
    FirstMatch(cs, 1, Strip(article.author), Strip(article.source_domain))

Row(article, name, email, confidence, title, syntax_valid, mx_valid, connected) ==
    [url |-> article.url, author |-> article.author, source_domain |-> article.source_domain,
     full_name |-> name, email |-> email, confidence |-> confidence, contact_title |-> title,
     email_syntax_valid |-> syntax_valid, email_mx_valid |-> mx_valid,
     rocketreach_connected |-> connected]

\* the row of one article with the flag taken from the article's own match
enriched_article_own_match(cs, article) ==
    LET m == matching_contact(cs, article)
    IN  IF m # 0 THEN
            IF cs[m].confidence.null
            THEN [raised |-> "TypeError",
                  row |-> Row(article, Empty, Empty, Empty, Empty, FALSE, FALSE, FALSE)]
            ELSE [raised |-> "",
                  row |-> Row(article, cs[m].full_name, cs[m].email,
                              confidence_percent(cs[m].confidence.v), cs[m].title,
                              cs[m].syntax_valid, cs[m].mx_valid, TRUE)]
        ELSE [raised |-> "",
              row |-> Row(article, NotFound, NotFound, <<"0", "%">>, NotFound,
                          FALSE, FALSE, FALSE)]

\* lines 219-248: the row of one article; raised is the TypeError of
\* comparing a null confidence with 0
enriched_article(cs, article) ==
    LET m == matching_contact(cs, article)
        rocketreach_connected == Len(cs) > 0
    IN  IF m # 0 THEN
            IF cs[m].confidence.null
            THEN [raised |-> "TypeError",
                  row |-> Row(article, Empty, Empty, Empty, Empty, FALSE, FALSE, FALSE)]
            ELSE [raised |-> "",
                  row |-> Row(article, cs[m].full_name, cs[m].email,
                              confidence_percent(cs[m].confidence.v), cs[m].title,
                              cs[m].syntax_valid, cs[m].mx_valid, rocketreach_connected)]
        ELSE [raised |-> "",
              row |-> Row(article, NotFound, NotFound, <<"0", "%">>, NotFound,
                          FALSE, FALSE, rocketreach_connected)]

\* lines 204-250: the rows appended before the loop ends or an exception leaves it
RECURSIVE MergeRows(_, _, _)
MergeRows(arts, cs, k) ==
    IF k > Len(arts) THEN [raised |-> "", rows |-> <<>>]
    ELSE LET e == enriched_article(cs, arts[k]) IN
         IF e.raised # "" THEN [raised |-> e.raised, rows |-> <<>>]
         ELSE LET rest == MergeRows(arts, cs, k + 1)
              IN  [raised |-> rest.raised, rows |-> <<e.row>> \o rest.rows]

\* the merge loop of main
Merge ==
    /\ pc = "merge"
    /\ LET m == MergeRows(articles, contacts, 1) IN
        /\ enriched_articles' = m.rows
        /\ pc' = IF m.raised # "" THEN "raised" ELSE "export"
    /\ UNCHANGED <<idx, processed_authors, contacts, contact_info, lookups>>
    /\ UNCHANGED <<runVars, callVars>>
    /\ UNCHANGED <<exportVars, validateVars, writerVars, serverVars>>

-----------------------------------------------------------------------------
(* The export stage (utils/exporters.py, lines 252-260 of main)            *)

\* what the file system does during the export: each write goes through or
\* raises OSError (disk full, no permission, missing directory)
DiskEnvs == [csv : BOOLEAN, report : BOOLEAN]

\* write_articles_csv: False for no records (lines 25-27) and for any
\* exception (lines 63-65), True once the file is written
write_articles_csv(records, disk) == IF records = <<>> THEN FALSE ELSE disk.csv

\* write_summary_report: True once the report is written, False for any
\* exception (lines 299-301)
write_summary_report(disk) == disk.report

\* lines 288: the confidences (hundredths) that enter the distribution; a
\* confidence of None or 0.0 is falsy and left out
confidences(cs) ==
    LET kept == SelectSeq(cs, LAMBDA c : ~c.confidence.null /\ c.confidence.v # 0)
    IN  [k \in 1..Len(kept) |-> kept[k].confidence.v]

RECURSIVE sum(_)
sum(ns) == IF ns = <<>> THEN 0 ELSE Head(ns) + sum(Tail(ns))

\* lines 276-279: the dict sources, in insertion order, from article k on
RECURSIVE sources(_, _)
sources(arts, k) ==
    IF k > Len(arts) THEN <<>>
    ELSE (IF \E j \in 1..(k - 1) : arts[j].source_domain = arts[k].source_domain
          THEN <<>>
          ELSE <<[domain |-> arts[k].source_domain,
                  count |-> Cardinality({j \in 1..Len(arts) :
                                arts[j].source_domain = arts[k].source_domain})]>>)
         \o sources(arts, k + 1)

\* line 282: sorted(..., key=count, reverse=True), which keeps the order of
\* items with equal counts
RECURSIVE sorted_by_count(_)
sorted_by_count(items) ==
    IF items = <<>> THEN <<>>
    ELSE LET x == Head(items)
             rest == sorted_by_count(Tail(items))
         IN  SelectSeq(rest, LAMBDA y : y.count > x.count) \o <<x>>
                 \o SelectSeq(rest, LAMBDA y : y.count <= x.count)

\* no report on disk
NoReport ==
    [written |-> FALSE, articles_processed |-> 0, contacts_found |-> 0, by_source |-> <<>>,
     distribution |-> FALSE, confidence_sum |-> 0, confidence_count |-> 0,
     high |-> 0, medium |-> 0, low |-> 0]

\* lines 266-294: the content of scraping_report.txt but for its timestamp;
\* the average is confidence_sum / confidence_count
summary_report(arts, cs) ==
    LET conf == confidences(cs)
        shown == cs # <<>> /\ conf # <<>>
    IN  [written |-> TRUE,
         articles_processed |-> Len(arts),
         contacts_found |-> Len(cs),
         by_source |-> sorted_by_count(sources(arts, 1)),
         distribution |-> shown,
         confidence_sum |-> IF shown THEN sum(conf) ELSE 0,
         confidence_count |-> IF shown THEN Len(conf) ELSE 0,
         high |-> IF shown THEN Len(SelectSeq(conf, LAMBDA c : c > 80)) ELSE 0,
         medium |-> IF shown THEN Len(SelectSeq(conf, LAMBDA c : 50 <= c /\ c <= 80)) ELSE 0,
         low |-> IF shown THEN Len(SelectSeq(conf, LAMBDA c : c < 50)) ELSE 0]

\* lines 252-260 of main: both writes, their return values dropped, the
\* completion message and return 0; write_contacts_csv and write_joined_csv
\* are imported (line 20) and never called
Export ==
    /\ pc = "export"
    /\ \E disk \in DiskEnvs :
        /\ csv_written' = write_articles_csv(enriched_articles, disk)
        /\ report_written' = write_summary_report(disk)
        /\ artifacts' = artifacts
              \cup (IF write_articles_csv(enriched_articles, disk)
                    THEN {"enriched_articles.csv"} ELSE {})
              \cup (IF write_summary_report(disk) THEN {"scraping_report.txt"} ELSE {})
        /\ report' = IF write_summary_report(disk)
                     THEN summary_report(articles, contacts) ELSE NoReport
    /\ completed' = TRUE
    /\ exit_code' = 0
    /\ pc' = "exit"
    /\ UNCHANGED <<idx, processed_authors, contacts, contact_info, lookups, enriched_articles>>
    /\ UNCHANGED <<runVars, callVars, validateVars, writerVars, serverVars>>

-----------------------------------------------------------------------------
(* utils.exporters: the tables the writers build and the files they leave  *)

\* a record is a dict: a sequence of <<key, value>> pairs in insertion order
Keys(r) == [k \in 1..Len(r) |-> r[k][1]]
Has(r, key) == \E k \in 1..Len(r) : r[k][1] = key
\* the cell of a DataFrame for this record and column; "" stands for NaN
Cell(r, key) ==
    IF Has(r, key) THEN r[CHOOSE k \in 1..Len(r) : r[k][1] = key][2] ELSE ""

Range(seq) == {seq[k] : k \in 1..Len(seq)}

\* the first occurrences of the elements of seq, in order
Unique(seq) ==
    LET firsts == {k \in 1..Len(seq) : \A j \in 1..(k - 1) : seq[j] # seq[k]}
        nth(i) == CHOOSE k \in firsts : Cardinality({j \in firsts : j < k}) = i - 1
        kept == [i \in 1..Cardinality(firsts) |-> seq[nth(i)]]
    IN  SubSeq(kept, 1, Len(kept))

RECURSIVE AllKeys(_)
AllKeys(records) ==
    IF records = <<>> THEN <<>> ELSE Keys(Head(records)) \o AllKeys(Tail(records))

\* pd.DataFrame(records): the columns are the keys in order of first
\* appearance, a row per record
DataFrame(records) ==
    LET columns == Unique(AllKeys(records))
    IN  [columns |-> columns,
         rows |-> [k \in 1..Len(records) |->
                      [j \in 1..Len(columns) |-> Cell(records[k], columns[j])]]]

ColumnIndex(df, col) == CHOOSE j \in 1..Len(df.columns) : df.columns[j] = col

\* if col not in df.columns: df[col] = ''
with_column(df, col) ==
    IF col \in Range(df.columns) THEN df
    ELSE [columns |-> Append(df.columns, col),
          rows |-> [k \in 1..Len(df.rows) |-> Append(df.rows[k], "")]]

RECURSIVE with_columns(_, _)
with_columns(df, cols) ==
    IF cols = <<>> THEN df ELSE with_columns(with_column(df, Head(cols)), Tail(cols))

\* df[cols]
select(df, cols) ==
    [columns |-> cols,
     rows |-> [k \in 1..Len(df.rows) |->
                  [j \in 1..Len(cols) |-> df.rows[k][ColumnIndex(df, cols[j])]]]]

\* [col for col in cols if col in present]
RECURSIVE among(_, _)
among(cols, present) ==
    IF cols = <<>> THEN <<>>
    ELSE (IF Head(cols) \in present THEN <<Head(cols)>> ELSE <<>>)
         \o among(Tail(cols), present)

\* line 39
base_columns == <<"url", "title", "author", "source_domain", "date_publish", "language">>

\* lines 40-41
contact_columns ==
    <<"full_name", "email", "confidence", "contact_title",
      "email_syntax_valid", "email_mx_valid", "rocketreach_connected">>

\* every base column required
required_columns_all_base == base_columns

\* line 33
required_columns == <<"url", "title", "author", "source_domain">>

\* lines 30-53 of write_articles_csv: the frame that is written
articles_frame(records) ==
    LET df == with_columns(DataFrame(records), required_columns)
        columns == base_columns \o among(contact_columns, Range(df.columns))
        available_columns == among(columns, Range(df.columns))
    IN  select(df, available_columns)

\* line 179
contacts_required_columns == <<"full_name", "email", "domain", "confidence", "source">>

\* line 185
contacts_columns ==
    <<"full_name", "email", "domain", "confidence", "source", "title", "company",
      "syntax_valid", "mx_valid", "smtp_valid", "valid">>

\* lines 176-187 of write_contacts_csv: the frame that is written
contacts_frame(records) ==
    LET df == with_columns(DataFrame(records), contacts_required_columns)
        available_columns == among(contacts_columns, Range(df.columns))
    IN  select(df, available_columns)

\* astype(str) of a cell: NaN reads "nan"
str(cell) == IF cell = "" THEN "nan" ELSE cell

\* lines 226-227: the join key of a row
join_key(df, row, name_col, domain_col) ==
    str(row[ColumnIndex(df, name_col)]) \o "|" \o str(row[ColumnIndex(df, domain_col)])

\* the rows of the left join from article row k on: an article row with each
\* contact row of the same key, in order, or once with NaN for every contact column
RECURSIVE joined_rows(_, _, _)
joined_rows(adf, cdf, k) ==
    IF k > Len(adf.rows) THEN <<>>
    ELSE LET key == join_key(adf, adf.rows[k], "author", "source_domain")
             matches == SelectSeq(cdf.rows,
                            LAMBDA row : join_key(cdf, row, "full_name", "domain") = key)
             blanks == [j \in 1..Len(cdf.columns) |-> ""]
         IN  (IF matches = <<>> THEN <<adf.rows[k] \o blanks>>
              ELSE [j \in 1..Len(matches) |-> adf.rows[k] \o matches[j]])
             \o joined_rows(adf, cdf, k + 1)

\* lines 220-236 of write_joined_csv: the frame that is written; raised is the
\* KeyError of a frame without the columns the join key is made of
joined_frame(arts, cs) ==
    LET articles_df == DataFrame(arts)
        contacts_df == DataFrame(cs)
    IN  IF contacts_df.rows = <<>> \/ contacts_df.columns = <<>>
        THEN [raised |-> FALSE, df |-> articles_df]
        ELSE IF ~({"author", "source_domain"} \subseteq Range(articles_df.columns))
                 \/ ~({"full_name", "domain"} \subseteq Range(contacts_df.columns))
        THEN [raised |-> TRUE, df |-> articles_df]
        ELSE [raised |-> FALSE,
              df |-> [columns |-> articles_df.columns
                          \o [j \in 1..Len(contacts_df.columns) |->
                                 IF contacts_df.columns[j] \in Range(articles_df.columns)
                                 THEN contacts_df.columns[j] \o "_contact"
                                 ELSE contacts_df.columns[j]],
                      rows |-> joined_rows(articles_df, contacts_df, 1)]]

\* no file at the path
NoFile == [exists |-> FALSE, columns |-> <<>>, rows |-> <<>>]
File(df) == [exists |-> TRUE, columns |-> df.columns, rows |-> df.rows]

\* os.makedirs(os.path.dirname(path), exist_ok=True): a path with no directory
\* component has dirname '' and os.makedirs('') raises FileNotFoundError
makedirs(dir, dirs) ==
    IF dir = "" THEN [raised |-> TRUE, dirs |-> dirs]
    ELSE [raised |-> FALSE, dirs |-> dirs \cup {dir}]

\* open(path, 'w') in a directory: the working directory is there, any other
\* has to exist
can_open(dir, dirs) == dir = "" \/ dir \in dirs

\* a write that adds the rows to those of the file at the path
to_csv_append(old, df) ==
    IF old.exists
    THEN [exists |-> TRUE, columns |-> old.columns, rows |-> old.rows \o df.rows]
    ELSE File(df)

\* df.to_csv(path, index=False, encoding='utf-8'): the file is opened with
\* mode 'w' and holds the frame alone
to_csv(old, df) == File(df)

MaxCalls == 2

\* one call of a writer begins
Called(writer) ==
    /\ Len(wcalls) < MaxCalls
    /\ wcalls' = Append(wcalls, writer)
    /\ UNCHANGED <<wrecords, wcontacts, wdir, wappended>>
    /\ UNCHANGED <<runVars, mainVars, callVars, exportVars, validateVars, serverVars>>

\* lines 56-61, 189-195, 238-244: the directory, the file, True; False for
\* the exception of lines 63, 197, 246
WriteFrame(df) ==
    LET made == makedirs(wdir, wdisk.dirs)
    IN  IF made.raised \/ ~can_open(wdir, made.dirs)
        THEN wreturn' = "False" /\ wdisk' = wdisk
        ELSE /\ wreturn' = "True"
             /\ wdisk' = [wdisk EXCEPT !.dirs = made.dirs, !.csv = to_csv(wdisk.csv, df)]

\* write_articles_csv(wrecords, path)
WriteArticlesCsv ==
    /\ Called("write_articles_csv")
    /\ IF wrecords = <<>> THEN wreturn' = "False" /\ wdisk' = wdisk
       ELSE WriteFrame(articles_frame(wrecords))

\* write_contacts_csv(wcontacts, path)
WriteContactsCsv ==
    /\ Called("write_contacts_csv")
    /\ IF wcontacts = <<>> THEN wreturn' = "False" /\ wdisk' = wdisk
       ELSE WriteFrame(contacts_frame(wcontacts))

\* write_joined_csv(wrecords, wcontacts, path)
WriteJoinedCsv ==
    /\ Called("write_joined_csv")
    /\ IF wrecords = <<>> \/ joined_frame(wrecords, wcontacts).raised
       THEN wreturn' = "False" /\ wdisk' = wdisk
       ELSE WriteFrame(joined_frame(wrecords, wcontacts).df)

\* write_summary_report(wrecords, wcontacts, output_dir): lines 264-266 open
\* the report in output_dir, which is not created
WriteSummaryReport ==
    /\ Called("write_summary_report")
    /\ IF can_open(wdir, wdisk.dirs)
       THEN wreturn' = "True" /\ wdisk' = [wdisk EXCEPT !.report = TRUE]
       ELSE wreturn' = "False" /\ wdisk' = wdisk

\* list(set(columns)): the columns in an order that depends on the hash seed
\* of the process, any of their orders
Orders(cols) ==
    {SubSeq(f, 1, Len(f)) :
        f \in {g \in [1..Cardinality(cols) -> cols] :
                  \A i, j \in 1..Cardinality(cols) : g[i] = g[j] => i = j}}

\* pd.concat([a, b], ignore_index=True) of frames with the same columns
concat(a, b) == [columns |-> a.columns, rows |-> a.rows \o b.rows]

\* df.drop_duplicates(subset=[col], keep='first')
drop_duplicates(df, col) ==
    LET c == ColumnIndex(df, col)
        firsts == {k \in 1..Len(df.rows) :
                      \A j \in 1..(k - 1) : df.rows[j][c] # df.rows[k][c]}
        nth(i) == CHOOSE k \in firsts : Cardinality({j \in firsts : j < k}) = i - 1
        kept == [i \in 1..Cardinality(firsts) |-> df.rows[nth(i)]]
    IN  [columns |-> df.columns, rows |-> SubSeq(kept, 1, Len(kept))]

\* lines 114-147 of append_articles_csv: the frame that is written over the
\* file at the path, the columns of a file that exists taken in this order
combined_frame(old, new_df, all_columns) ==
    IF old.exists
    THEN LET existing_df == [columns |-> old.columns, rows |-> old.rows]
         IN  drop_duplicates(
                 concat(select(with_columns(existing_df, all_columns), all_columns),
                        select(with_columns(new_df, all_columns), all_columns)),
                 "url")
    ELSE new_df

-----------------------------------------------------------------------------
(* Specifications                                                          *)

\* what the extractor can hand to the pipeline: (author, source_domain)
ArticlePool ==
    { <<<<"Jane">>, <<"nyt.com">>>>,
      <<<<"Jane">>, <<"www.", "nyt.com">>>>,
      <<<<"Bob">>, <<"nyt.com">>>>,
      <<<<" ">>, <<"nyt.com">>>> }

MaxArticles == 2

Lists(pool, n) ==
    UNION { { [i \in 1..k |-> Article(i, f[i][1], f[i][2])] : f \in [1..k -> pool] } : k \in 0..n }

MaxRequests == 2
RequestIds == 1..MaxRequests

\* the server has received no request
InitServerIdle ==
    /\ scraping_status = "idle"
    /\ handler = [r \in RequestIds |-> "new"]
    /\ thread = [r \in RequestIds |-> "none"]
    /\ returncode = [r \in RequestIds |-> -1]
    /\ csv_run = -1

\* no writer is called on its own
InitWritersIdle ==
    /\ wrecords = <<>> /\ wcontacts = <<>> /\ wdir = "out"
    /\ wdisk = [dirs |-> {"out"}, csv |-> NoFile, report |-> FALSE]
    /\ wreturn = "none" /\ wcalls = <<>> /\ wappended = <<>>

\* main has not reached the export
InitExport ==
    /\ csv_written = FALSE /\ report_written = FALSE /\ exit_code = -1 /\ completed = FALSE
    /\ artifacts = {"run.log"}
    /\ report = NoReport

\* no call of validate_email_full is followed
InitValidateIdle ==
    /\ vpc = "idle" /\ vemail = Empty /\ vsmtp = FALSE
    /\ vnetwork = [deliverable |-> TRUE, mx |-> "records", smtp_mx |-> "records", smtp |-> "250"]
    /\ vresult = NoResult /\ vstages = <<>>

InitMain ==
    /\ pc = "main" /\ idx = 1 /\ processed_authors = {} /\ contacts = <<>>
    /\ contact_info = None /\ lookups = <<>> /\ enriched_articles = <<>>
    /\ lpc = "idle" /\ full_name = Empty /\ domain = Empty
    /\ attempt = 0 /\ response = NoResponse /\ trace = <<>> /\ lresult = None /\ lraised = ""
    /\ InitExport
    /\ InitWritersIdle
    /\ InitServerIdle
    /\ InitValidateIdle

Init ==
    /\ articles \in Lists(ArticlePool, MaxArticles)
    /\ no_enrich \in BOOLEAN
    /\ smtp_check \in BOOLEAN
    /\ api_key \in BOOLEAN
    /\ service = RunOutcomes
    /\ InitMain

Next ==
    \/ MainStart
    \/ EnrichNext
    \/ LookupCall
    \/ RequestAttempt
    \/ EnrichLookupReturned
    \/ EnrichCollect
    \/ EnrichReturn
    \/ Merge
    \/ Export

Spec == Init /\ [][Next]_vars

-----------------------------------------------------------------------------
(* Runs over longer article lists against a service that is up, for the    *)
(* deduplication of lookup keys                                            *)

\* two (author, domain) pairs whose author_key is the same text
KeyPool ==
    { <<<<"Jane">>, <<"nyt.com">>>>,
      <<<<"Jane">>, <<"www.", "nyt.com">>>>,
      <<<<"Ann", "_", "Lee">>, <<"bbc.com">>>>,
      <<<<"Ann">>, <<"Lee", "_", "bbc.com">>>>,
      <<<<" ">>, <<"nyt.com">>>>,
      <<<<"Jane", " ">>, <<"nyt.com">>>> }

MaxKeyArticles == 3

InitKeys ==
    /\ articles \in Lists(KeyPool, MaxKeyArticles)
    /\ no_enrich = FALSE
    /\ smtp_check = FALSE
    /\ api_key = TRUE
    /\ service = PlainOutcomes
    /\ InitMain

SpecKeys == InitKeys /\ [][Next]_vars

-----------------------------------------------------------------------------
(* The merge and the export over one article whose contact was found with  *)
(* any confidence in whole hundredths                                      *)

MaxHundredths == 100

InitConfidence ==
    /\ articles = <<Article(1, <<"Jane">>, <<"nyt.com">>)>>
    /\ no_enrich = FALSE /\ smtp_check = FALSE /\ api_key = TRUE
    /\ service = PlainOutcomes
    /\ pc = "merge" /\ idx = 2
    /\ processed_authors = {author_key(<<"Jane">>, <<"nyt.com">>)}
    /\ \E h \in 0..MaxHundredths :
          contacts = <<with_validation(
                          Contact(<<"Jane">>, Jane, Num(h), <<"nyt.com">>, <<"Editor">>, <<"NYT">>),
                          [syntax_valid |-> TRUE, mx_valid |-> TRUE])>>
    /\ contact_info = None
    /\ lookups = <<[name |-> <<"Jane">>, domain |-> <<"nyt.com">>]>>
    /\ enriched_articles = <<>>
    /\ lpc = "idle" /\ full_name = <<"Jane">> /\ domain = <<"nyt.com">>
    /\ attempt = 0 /\ response = NoResponse /\ trace = <<>> /\ lresult = None /\ lraised = ""
    /\ InitExport
    /\ InitWritersIdle
    /\ InitServerIdle
    /\ InitValidateIdle

NextConfidence == Merge \/ Export

SpecConfidence == InitConfidence /\ [][NextConfidence]_vars

-----------------------------------------------------------------------------
(* A single lookup, called directly                                        *)

LookupNames == {Empty, <<"Jane">>}
LookupDomains == {Empty, <<"nyt.com">>, <<"www.", "nyt.com">>, <<"https://", "www.", "nyt.com">>}

InitLookup ==
    /\ articles = <<>> /\ no_enrich = FALSE /\ smtp_check = FALSE
    /\ api_key \in BOOLEAN
    /\ service = Outcomes
    /\ pc = "direct" /\ idx = 1 /\ processed_authors = {} /\ contacts = <<>>
    /\ contact_info = None
    /\ lookups = <<>> /\ enriched_articles = <<>>
    /\ lpc = "call"
    /\ full_name \in LookupNames
    /\ domain \in LookupDomains
    /\ attempt = 0 /\ response = NoResponse /\ trace = <<>> /\ lresult = None /\ lraised = ""
    /\ InitExport
    /\ InitWritersIdle
    /\ InitServerIdle
    /\ InitValidateIdle

NextLookup == LookupCall \/ RequestAttempt

SpecLookup == InitLookup /\ [][NextLookup]_vars

-----------------------------------------------------------------------------
(* A single validation, called directly                                    *)

Emails ==
    { Empty,
      <<" ">>,
      Jane,
      <<" ", "Jane", "@", "NYT", ".", "com", " ">>,
      <<"jane">>,
      <<"@", "nyt", ".", "com">>,
      <<"jane", "@">>,
      <<"jane", "@", "localhost">>,
      <<"jane", "@", "@", "nyt", ".", "com">>,
      <<"jane", "@", "nyt", ".", ".", "com">> }

InitValidate ==
    /\ articles = <<>> /\ no_enrich = FALSE /\ smtp_check = FALSE /\ api_key = TRUE
    /\ service = PlainOutcomes
    /\ pc = "direct" /\ idx = 1 /\ processed_authors = {} /\ contacts = <<>>
    /\ contact_info = None
    /\ lookups = <<>> /\ enriched_articles = <<>>
    /\ lpc = "idle" /\ full_name = Empty /\ domain = Empty
    /\ attempt = 0 /\ response = NoResponse /\ trace = <<>> /\ lresult = None /\ lraised = ""
    /\ InitExport
    /\ InitWritersIdle
    /\ InitServerIdle
    /\ vpc = "call"
    /\ vemail \in Emails
    /\ vsmtp \in BOOLEAN
    /\ vnetwork \in ValidationEnvs
    /\ vresult = NoResult /\ vstages = <<>>

NextValidate == ValidateSyntax \/ ValidateMx \/ ValidateSmtp \/ ValidateReturn

SpecValidate == InitValidate /\ [][NextValidate]_vars

-----------------------------------------------------------------------------
(* Runs of the pipeline while the lookup service is down: no request is    *)
(* ever answered 200                                                       *)

DownOutcomes == {o \in RunOutcomes : o.exc \/ o.status # 200}

InitDown ==
    /\ articles \in Lists(ArticlePool, MaxArticles)
    /\ no_enrich \in BOOLEAN
    /\ smtp_check = FALSE
    /\ api_key = TRUE
    /\ service = DownOutcomes
    /\ InitMain

SpecDown == InitDown /\ [][Next]_vars

-----------------------------------------------------------------------------
(* The HTTP wrapper (api_server.py; api/index.py has the same handler and  *)
(* thread): concurrent POST /run_scraper requests, each handled in its own *)
(* server thread, and the background threads they start                    *)

\* how a subprocess running scripts/run_scraper.py can end: it wrote
\* enriched_articles.csv; it extracted no article and write_articles_csv
\* returned False (exporters.py lines 25-27); the write raised and returned
\* False (lines 63-65); an exception left main
RunEndings == {"written", "no_article", "export_failed", "crashed"}

\* the exit status of the subprocess: main returns 0 after the export
\* whatever the writers returned (run_scraper.py lines 252-260)
exit_status(ending) == IF ending = "crashed" THEN 1 ELSE 0

\* lines 58-59 of run_scraper: the request is refused while the status is
\* "running"
RunScraperCheck(r) ==
    /\ handler[r] = "new"
    /\ handler' = [handler EXCEPT ![r] =
                      IF scraping_status = "running" THEN "rejected" ELSE "accepted"]
    /\ UNCHANGED <<scraping_status, thread, returncode, csv_run>>
    /\ UNCHANGED <<runVars, mainVars, callVars, exportVars, validateVars, writerVars>>

\* lines 61-83: the request body is read; without URLs the answer is 400,
\* otherwise the background thread is started and the answer is sent
RunScraperStart(r) ==
    /\ handler[r] = "accepted"
    /\ \E has_urls \in BOOLEAN :
          IF has_urls
          THEN /\ handler' = [handler EXCEPT ![r] = "responded"]
               /\ thread' = [thread EXCEPT ![r] = "started"]
          ELSE /\ handler' = [handler EXCEPT ![r] = "no_urls"]
               /\ thread' = thread
    /\ UNCHANGED <<scraping_status, returncode, csv_run>>
    /\ UNCHANGED <<runVars, mainVars, callVars, exportVars, validateVars, writerVars>>

\* lines 29-40 of run_scraper_async: the status becomes "running" and the
\* subprocess is started
ThreadBegin(r) ==
    /\ thread[r] = "started"
    /\ thread' = [thread EXCEPT ![r] = "running"]
    /\ scraping_status' = "running"
    /\ UNCHANGED <<handler, returncode, csv_run>>
    /\ UNCHANGED <<runVars, mainVars, callVars, exportVars, validateVars, writerVars>>

\* line 40: the subprocess ends; it has replaced the file only if its export
\* wrote one
SubprocessExit(r) ==
    /\ thread[r] = "running"
    /\ \E ending \in RunEndings :
          /\ returncode' = [returncode EXCEPT ![r] = exit_status(ending)]
          /\ csv_run' = IF ending = "written" THEN r ELSE csv_run
    /\ thread' = [thread EXCEPT ![r] = "exited"]
    /\ UNCHANGED <<scraping_status, handler>>
    /\ UNCHANGED <<runVars, mainVars, callVars, exportVars, validateVars, writerVars>>

\* lines 42-47: the status becomes "done" for returncode 0, "error" otherwise
ThreadEnd(r) ==
    /\ thread[r] = "exited"
    /\ thread' = [thread EXCEPT ![r] = "finished"]
    /\ scraping_status' = IF returncode[r] = 0 THEN "done" ELSE "error"
    /\ UNCHANGED <<handler, returncode, csv_run>>
    /\ UNCHANGED <<runVars, mainVars, callVars, exportVars, validateVars, writerVars>>

\* the server starts with or without the file of an earlier run
InitServer ==
    /\ articles = <<>> /\ no_enrich = FALSE /\ smtp_check = FALSE /\ api_key = TRUE
    /\ service = PlainOutcomes
    /\ pc = "direct" /\ idx = 1 /\ processed_authors = {} /\ contacts = <<>>
    /\ contact_info = None
    /\ lookups = <<>> /\ enriched_articles = <<>>
    /\ lpc = "idle" /\ full_name = Empty /\ domain = Empty
    /\ attempt = 0 /\ response = NoResponse /\ trace = <<>> /\ lresult = None /\ lraised = ""
    /\ InitExport
    /\ InitValidateIdle
    /\ InitWritersIdle
    /\ scraping_status = "idle"
    /\ handler = [r \in RequestIds |-> "new"]
    /\ thread = [r \in RequestIds |-> "none"]
    /\ returncode = [r \in RequestIds |-> -1]
    /\ csv_run \in {-1, 0}

NextServer ==
    \/ \E r \in RequestIds : RunScraperCheck(r)
    \/ \E r \in RequestIds : RunScraperStart(r)
    \/ \E r \in RequestIds : ThreadBegin(r)
    \/ \E r \in RequestIds : SubprocessExit(r)
    \/ \E r \in RequestIds : ThreadEnd(r)

SpecServer == InitServer /\ [][NextServer]_vars

-----------------------------------------------------------------------------
(* The writers of utils.exporters, called directly, up to MaxCalls times   *)
(* on the same arguments                                                   *)

\* lines 84-92 of extract_article_data: the keys of an extracted article
extracted(i, author, dom) ==
    <<<<"url", "u" \o i>>, <<"title", "t" \o i>>, <<"author", author>>,
      <<"source_domain", dom>>, <<"date_publish", "d" \o i>>, <<"language", "en">>,
      <<"description", "x" \o i>>>>

\* lines 219-248 of main: the extracted article and the contact columns
enriched(i, author, dom) ==
    extracted(i, author, dom)
        \o <<<<"full_name", author>>, <<"email", "e" \o i>>, <<"confidence", "87%">>,
             <<"contact_title", "Editor">>, <<"email_syntax_valid", "True">>,
             <<"email_mx_valid", "True">>, <<"rocketreach_connected", "True">>>>

\* the dicts a caller may hand to write_articles_csv: an enriched row, an
\* extracted article, a record with two keys, a record with some contact
\* columns in another order
RecordPool ==
    { enriched("1", "Jane", "nyt.com"),
      extracted("2", "Jane", "www.nyt.com"),
      <<<<"url", "u3">>, <<"author", "Jane">>>>,
      <<<<"email", "e4">>, <<"url", "u4">>, <<"title", "t4">>, <<"author", "Jane">>,
        <<"source_domain", "nyt.com">>, <<"full_name", "Jane">>>> }

MaxRecords == 2

\* the lists of at most n records of the pool
RECURSIVE ListsUpTo(_, _)
ListsUpTo(pool, n) ==
    IF n = 0 THEN {<<>>}
    ELSE LET shorter == ListsUpTo(pool, n - 1)
         IN  shorter \cup {Append(l, r) : l \in shorter, r \in pool}

RecordLists == ListsUpTo(RecordPool, MaxRecords)

\* a contact as enrich_with_emails collects it (lines 129-148)
collected(name, dom, email) ==
    <<<<"full_name", name>>, <<"email", email>>, <<"confidence", "0.87">>,
      <<"source", "rocketreach">>, <<"domain", dom>>, <<"title", "Editor">>,
      <<"company", "NYT">>, <<"syntax_valid", "True">>, <<"mx_valid", "True">>>>

ContactLists ==
    { <<>>,
      <<collected("Jane", "nyt.com", "jane@nyt.com")>>,
      <<collected("Jane", "nyt.com", "jane@nyt.com"),
        collected("Jane", "nyt.com", "desk@nyt.com")>>,
      <<<<<<"email", "ann@bbc.com">>, <<"valid", "True">>>>>> }

\* the file a former run left at the path
OldFile == [exists |-> TRUE, columns |-> <<"url">>, rows |-> <<<<"u0">>>>]

InitWriters ==
    /\ articles = <<>> /\ no_enrich = FALSE /\ smtp_check = FALSE /\ api_key = TRUE
    /\ service = PlainOutcomes
    /\ pc = "direct" /\ idx = 1 /\ processed_authors = {} /\ contacts = <<>>
    /\ contact_info = None
    /\ lookups = <<>> /\ enriched_articles = <<>>
    /\ lpc = "idle" /\ full_name = Empty /\ domain = Empty
    /\ attempt = 0 /\ response = NoResponse /\ trace = <<>> /\ lresult = None /\ lraised = ""
    /\ InitExport
    /\ InitValidateIdle
    /\ InitServerIdle
    /\ wrecords \in RecordLists
    /\ wcontacts \in ContactLists
    /\ wdir \in {"", "out", "new"}
    /\ wdisk \in {[dirs |-> {"out"}, csv |-> f, report |-> FALSE] :
                    f \in IF wdir = "new" THEN {NoFile} ELSE {NoFile, OldFile}}
    /\ wreturn = "none" /\ wcalls = <<>> /\ wappended = <<>>

NextWriters == WriteArticlesCsv \/ WriteContactsCsv \/ WriteJoinedCsv \/ WriteSummaryReport

SpecWriters == InitWriters /\ [][NextWriters]_vars

-----------------------------------------------------------------------------
(* append_articles_csv, called up to MaxAppends times on one path that     *)
(* holds no file at first                                                  *)

\* a record with a URL and a title
titled(link, heading) == <<<<"url", link>>, <<"title", heading>>>>

\* the same URL with two titles, another URL with one column more
AppendPool ==
    { titled("u1", "first"),
      titled("u1", "second"),
      titled("u2", "other") \o <<<<"language", "en">>>> }

MaxAppendRecords == 2

AppendLists == ListsUpTo(AppendPool, MaxAppendRecords)

MaxAppends == 2

\* append_articles_csv(records, path) on the path of the writers: lines 80-82
\* return False for no record; lines 85-108 build the frame of
\* write_articles_csv; line 111 makes the directory; lines 150-152 write
AppendArticlesCsv ==
    /\ Len(wcalls) < MaxAppends
    /\ wcalls' = Append(wcalls, "append_articles_csv")
    /\ UNCHANGED <<wrecords, wcontacts, wdir>>
    /\ UNCHANGED <<runVars, mainVars, callVars, exportVars, validateVars, serverVars>>
    /\ \E records \in AppendLists :
          IF records = <<>>
          THEN wreturn' = "False" /\ wdisk' = wdisk /\ wappended' = wappended
          ELSE LET new_df == articles_frame(records)
                   made == makedirs(wdir, wdisk.dirs)
               IN  IF made.raised \/ ~can_open(wdir, made.dirs)
                   THEN wreturn' = "False" /\ wdisk' = wdisk /\ wappended' = wappended
                   ELSE \E all_columns \in
                              Orders(Range(wdisk.csv.columns) \cup Range(new_df.columns)) :
                           /\ wreturn' = "True"
                           /\ wappended' = wappended \o records
                           /\ wdisk' = [wdisk EXCEPT
                                  !.dirs = made.dirs,
                                  !.csv = to_csv(wdisk.csv,
                                              combined_frame(wdisk.csv, new_df, all_columns))]

InitAppend ==
    /\ articles = <<>> /\ no_enrich = FALSE /\ smtp_check = FALSE /\ api_key = TRUE
    /\ service = PlainOutcomes
    /\ pc = "direct" /\ idx = 1 /\ processed_authors = {} /\ contacts = <<>>
    /\ contact_info = None
    /\ lookups = <<>> /\ enriched_articles = <<>>
    /\ lpc = "idle" /\ full_name = Empty /\ domain = Empty
    /\ attempt = 0 /\ response = NoResponse /\ trace = <<>> /\ lresult = None /\ lraised = ""
    /\ InitExport
    /\ InitValidateIdle
    /\ InitServerIdle
    /\ InitWritersIdle

NextAppend == AppendArticlesCsv

SpecAppend == InitAppend /\ [][NextAppend]_vars

-----------------------------------------------------------------------------
(* Properties                                                              *)

Requests == SelectSeq(trace, LAMBDA e : e.ev = "request")
Sleeps == SelectSeq(trace, LAMBDA e : e.ev = "sleep")
\* status of the answer to the last request of this call (0: transport error)
LastStatus == IF Requests = <<>> THEN -1 ELSE Requests[Len(Requests)].n
Returned == lpc = "done" /\ full_name # Empty /\ domain # Empty
TheSentinel == Sentinel(full_name, clean_domain(domain))

\* the last request was answered 429 and every request before it, if any,
\* was too, each followed by a wait
EveryAnswerRateLimited ==
    /\ trace # <<>>
    /\ Len(trace) = 2 * Len(Requests)
    /\ \A k \in 1..Len(Requests) :
          /\ trace[2 * k - 1] = [ev |-> "request", n |-> 429]
          /\ trace[2 * k].ev = "sleep"

\* an exception arises inside the client
ClientRaises ==
    \/ ~api_key
    \/ /\ LastStatus = 429
       /\ response.has_retry_after
       /\ (~ParseInt(response.retry_after).ok \/ ParseInt(response.retry_after).v < 0)
    \/ /\ LastStatus = 200
       /\ ~response.body.empty
       /\ response.body.person.truthy
       /\ response.body.person.emails # <<>>
       /\ ~response.body.person.emails[1].dict

C4_GenericFailureRetried ==
    (Returned /\ lraised = "" /\ LastStatus \notin {-1, 200, 429}) =>
        /\ Len(Requests) = 3
        /\ lresult.kind = "contact" /\ lresult = TheSentinel

\* a wait that follows a 429 lasts min(advised delay, 300) seconds
RateLimitWaitCapped ==
    (Len(trace) >= 2 /\ trace[Len(trace)].ev = "sleep"
        /\ trace[Len(trace) - 1] = [ev |-> "request", n |-> 429]) =>
        LET advised == RetryAfter(response).v
        IN  trace[Len(trace)].n = IF advised < 300 THEN advised ELSE 300

C6_AbandonLongWait ==
    (LastStatus = 429 /\ response.status = 429 /\ RetryAfter(response).ok
        /\ RetryAfter(response).v > 3600) =>
        /\ lpc = "done"
        /\ trace[Len(trace)].ev = "request"
        /\ lraised = ""
        /\ lresult.kind = "contact" /\ lresult = TheSentinel

C6_Witness ==
    /\ Returned /\ LastStatus = 429
    /\ response.retry_after = <<"7", "2", "0", "0">>
    /\ Sleeps = <<>>
    /\ lresult.kind = "contact" /\ lresult.email = NotFound

\* C7: after a 200, a person with an email candidate gives the record of the
\* first candidate (email, confidence, title, company, queried name, clean
\* domain); no person, or a person with no candidate, gives the sentinel
C7_ResponseInterpreted ==
    (Returned /\ LastStatus = 200 /\ lraised = "" /\ lresult.kind = "contact") =>
        LET person == response.body.person
        IN  IF ~response.body.empty /\ person.truthy /\ person.emails # <<>>
            THEN (person.emails[1].has_email /\ person.emails[1].has_confidence
                    /\ person.has_title /\ person.has_company) =>
                 lresult = Contact(full_name, person.emails[1].email,
                                   person.emails[1].confidence, clean_domain(domain),
                                   person.current_title, person.current_company)
            ELSE lresult = TheSentinel

\* C8: every contact the client returned and the orchestrator collected has a
\* numeric confidence, which is 0 when the email is the sentinel
C8_ConfidenceNumeric ==
    \A k \in 1..Len(contacts) :
        /\ ~contacts[k].confidence.null
        /\ (contacts[k].email = NotFound => contacts[k].confidence.v = 0)

MergeOver == pc \in {"export", "exit", "raised"}

\* C1: once the merge loop of main is over there is exactly one enriched row
\* per input article, in input order
C1_OneRowPerArticle ==
    MergeOver =>
        /\ Len(enriched_articles) = Len(articles)
        /\ \A k \in 1..Len(articles) :
              /\ enriched_articles[k].url = articles[k].url
              /\ enriched_articles[k].author = articles[k].author
              /\ enriched_articles[k].source_domain = articles[k].source_domain

\* the (author, domain) pair of an article as enrich_with_emails reads it
PairOf(article) == [name |-> Strip(article.author), domain |-> Strip(article.source_domain)]
LookupsOf(pair) == Len(SelectSeq(lookups, LAMBDA l : l = pair))
ArticlesOf(pair) == Cardinality({k \in 1..Len(articles) : PairOf(articles[k]) = pair})
EnrichOver == pc \in {"merge", "export", "exit", "raised"}

\* C2: no pair is looked up twice, and once enrich_with_emails is over every
\* pair that stands on two or more articles has been looked up exactly once
C2_LookupOncePerPair ==
    /\ \A k \in 1..Len(lookups) : LookupsOf(lookups[k]) = 1
    /\ (EnrichOver /\ ~no_enrich) =>
          \A k \in 1..Len(articles) :
              LET pair == PairOf(articles[k])
              IN  (pair.name # Empty /\ pair.domain # Empty /\ ArticlesOf(pair) >= 2) =>
                      LookupsOf(pair) = 1

\* C9: the service is queried at most once per normalized key (author, domain
\* without "www." and scheme) and contacts holds at most one record per
\* (full_name, domain)
C9_NormalizedDedup ==
    /\ \A j, k \in 1..Len(lookups) :
          (lookups[j].name = lookups[k].name
              /\ clean_domain(lookups[j].domain) = clean_domain(lookups[k].domain)) => j = k
    /\ \A j, k \in 1..Len(contacts) :
          (contacts[j].full_name = contacts[k].full_name
              /\ contacts[j].domain = contacts[k].domain) => j = k

\* the steps main still has to take, at most
Remaining == IF idx <= Len(articles) THEN Len(articles) - idx + 1 ELSE 0
Measure ==
    CASE pc = "main" -> 8 * Len(articles) + 4
      [] pc = "enrich" -> 8 * Remaining + 3
      [] pc = "lookup" ->
            8 * (Remaining - 1) + 3 +
                (CASE lpc = "call" -> 7 [] lpc = "request" -> 6 - attempt [] OTHER -> 3)
      [] pc = "collect" -> 8 * (Remaining - 1) + 3 + 2
      [] pc = "merge" -> 2
      [] pc = "export" -> 1
      [] OTHER -> 0

KeysOfArticles ==
    {author_key(PairOf(articles[k]).name, PairOf(articles[k]).domain) :
        k \in {j \in 1..Len(articles) :
                  PairOf(articles[j]).name # Empty /\ PairOf(articles[j]).domain # Empty}}

\* main stands at one of its steps, and a lookup in flight stands at one of
\* the client's steps with an attempt left and an answer to receive
AtAStep ==
    CASE pc = "main" -> TRUE
      [] pc = "enrich" -> idx \in 1..(Len(articles) + 1)
      [] pc = "lookup" ->
            \/ lpc = "call"
            \/ lpc = "request" /\ attempt < max_retries /\ service # {}
            \/ lpc = "done"
      [] pc = "collect" -> idx \in 1..Len(articles)
      [] pc = "merge" -> TRUE
      [] pc = "export" -> DiskEnvs # {}
      [] OTHER -> pc \in {"exit", "raised"}

\* C10: no lookup or validation outcome aborts the batch: an exception leaves
\* main only from the merge; every step of the run brings its end nearer and
\* the run never stops before the merge is over, so enrich_with_emails
\* terminates; and when it is over every distinct key of the list has been
\* looked up, once, and the contact list is returned to main
C10_NoAbort ==
    /\ [](pc = "raised" => (no_enrich \/ idx > Len(articles)))
    /\ []((EnrichOver /\ ~no_enrich) =>
            /\ idx = Len(articles) + 1
            /\ processed_authors = KeysOfArticles
            /\ {author_key(lookups[k].name, lookups[k].domain) : k \in 1..Len(lookups)}
                  = KeysOfArticles
            /\ Len(lookups) = Cardinality(KeysOfArticles)
            /\ Len(contacts) <= Len(lookups))
    /\ [](Measure >= 0)
    /\ [][Measure' < Measure]_vars
    /\ []AtAStep

\* the first lookup failed inside the client and the second key was still
\* looked up and collected
C10_Witness ==
    /\ pc = "merge"
    /\ Len(lookups) = 2 /\ lookups[1].name = <<"Jane">> /\ lookups[2].name = <<"Bob">>
    /\ Len(contacts) = 1 /\ contacts[1].full_name = <<"Bob">>

\* C11: when a write of the export stage failed (the enriched-articles table
\* or the summary was not written), main does not return 0 and does not log
\* the pipeline as completed
C11_ExportFailureSurfaced ==
    (pc = "exit" /\ (~csv_written \/ ~report_written)) =>
        (exit_code # 0 /\ ~completed)

\* the contacts whose (full_name, domain) is the article's (author,
\* source_domain), as the same strings
ExactMatches(article) ==
    {j \in 1..Len(contacts) :
        contacts[j].full_name = article.author /\ contacts[j].domain = article.source_domain}

\* the same, both sides compared without leading and trailing blanks
StrippedMatches(article) ==
    {j \in 1..Len(contacts) :
        /\ Strip(contacts[j].full_name) = Strip(article.author)
        /\ Strip(contacts[j].domain) = Strip(article.source_domain)}

\* the row carries the fields of the first contact of the set, or the
\* "not found" fields if the set is empty
AppliedFirstOf(row, matches) ==
    IF matches = {}
    THEN row.full_name = NotFound /\ row.email = NotFound /\ row.contact_title = NotFound
    ELSE LET j == CHOOSE i \in matches : \A o \in matches : i <= o
         IN  /\ row.full_name = contacts[j].full_name
             /\ row.email = contacts[j].email
             /\ row.contact_title = contacts[j].title
             /\ row.confidence = confidence_percent(contacts[j].confidence.v)
             /\ row.email_syntax_valid = contacts[j].syntax_valid
             /\ row.email_mx_valid = contacts[j].mx_valid

\* C12 as stated: a row is matched exactly when author = full_name and
\* source_domain = domain as strings, and the first such contact is applied
C12_ExactMatchFirstWins ==
    \A k \in 1..Len(enriched_articles) :
        AppliedFirstOf(enriched_articles[k], ExactMatches(articles[k]))

\* C12 amended: a row is matched exactly when author = full_name and
\* source_domain = domain after leading and trailing blanks are removed on
\* both sides (case-sensitive), and the first such contact is applied
C12_StrippedMatchFirstWins ==
    \A k \in 1..Len(enriched_articles) :
        AppliedFirstOf(enriched_articles[k], StrippedMatches(articles[k]))

\* two contacts match the first article and differ, and an article whose
\* author ends with a blank is matched too
C12_Witness ==
    /\ pc = "export"
    /\ Len(articles) = 3 /\ articles[3].author = <<"Jane", " ">>
    /\ Len(contacts) = 2 /\ StrippedMatches(articles[1]) = {1, 2}
    /\ contacts[1].email = NotFound /\ contacts[2].email = Jane
    /\ enriched_articles[1].email = NotFound
    /\ enriched_articles[3].email = NotFound /\ enriched_articles[3].full_name = <<"Jane">>

\* C13: the confidence of a matched row is the whole percentage of the
\* contact's confidence followed by "%" (87 hundredths give "87%"), and "0%"
\* for a confidence of 0 or less
C13_ConfidencePercent ==
    \A k \in 1..Len(enriched_articles) :
        LET matches == StrippedMatches(articles[k]) IN
        matches # {} =>
            LET j == CHOOSE i \in matches : \A o \in matches : i <= o
                h == contacts[j].confidence.v
            IN  enriched_articles[k].confidence =
                    IF h <= 0 THEN <<"0", "%">> ELSE <<ToString(h), "%">>

\* the row's article has no matching contact, or its contact is the sentinel
NoContactFound(k) ==
    LET matches == StrippedMatches(articles[k]) IN
    \/ matches = {}
    \/ LET j == CHOOSE i \in matches : \A o \in matches : i <= o
       IN  contacts[j] = Sentinel(contacts[j].full_name, contacts[j].domain)

\* C14: a row without a contact, or with the sentinel contact, has email and
\* contact_title "not found", confidence "0%" and both flags false; and no
\* row has an empty email, full_name or contact_title
C14_NotFoundFields ==
    \A k \in 1..Len(enriched_articles) :
        LET row == enriched_articles[k] IN
        /\ NoContactFound(k) =>
              /\ row.email = NotFound /\ row.contact_title = NotFound
              /\ row.confidence = <<"0", "%">>
              /\ ~row.email_syntax_valid /\ ~row.email_mx_valid
        /\ row.email # Empty /\ row.full_name # Empty /\ row.contact_title # Empty

\* C15: every row carries the same rocketreach_connected, which is true
\* exactly when the contacts list of the run is not empty
C15_ConnectedFlagGlobal ==
    \A k \in 1..Len(enriched_articles) :
        /\ enriched_articles[k].rocketreach_connected = (Len(contacts) > 0)
        /\ \A j \in 1..Len(enriched_articles) :
              enriched_articles[j].rocketreach_connected
                  = enriched_articles[k].rocketreach_connected

\* a matched row and an unmatched row of one run, both flagged connected
C15_Witness ==
    /\ pc = "export" /\ Len(enriched_articles) = 2 /\ Len(contacts) > 0
    /\ enriched_articles[1].full_name # NotFound
    /\ enriched_articles[2].full_name = NotFound
    /\ enriched_articles[1].rocketreach_connected
    /\ enriched_articles[2].rocketreach_connected

Validated == vpc = "done"
Ran(stage) == \E k \in 1..Len(vstages) : vstages[k] = stage

\* C16: valid = syntax_valid and mx_valid and (smtp_valid is not False) when
\* SMTP was requested, syntax_valid and mx_valid when it was not; an SMTP
\* result of None never makes an address invalid
C16_OverallValid ==
    Validated =>
        /\ vresult.valid =
              (/\ vresult.syntax_valid
               /\ vresult.mx_valid
               /\ (vsmtp => vresult.smtp_valid # "False"))
        /\ (vresult.syntax_valid /\ vresult.mx_valid /\ vresult.smtp_valid = "None")
              => vresult.valid

\* the probe was asked for and ran without an answer, the address is valid
C16_Witness ==
    /\ Validated /\ vsmtp /\ Ran("smtp")
    /\ vresult.smtp_valid = "None" /\ vresult.valid

\* C17: the stages run in the order syntax, MX, SMTP; the MX stage runs only
\* after a passed syntax stage and the SMTP stage only if asked for and after
\* both passed; so mx_valid implies syntax_valid and smtp_valid is other than
\* None only if SMTP was requested and both stages passed
C17_StagesGated ==
    /\ vstages \in {<<>>, <<"syntax">>, <<"syntax", "mx">>, <<"syntax", "mx", "smtp">>}
    /\ Ran("mx") => vresult.syntax_valid
    /\ Ran("smtp") => (vsmtp /\ vresult.syntax_valid /\ vresult.mx_valid)
    /\ vresult.mx_valid => (vresult.syntax_valid /\ Ran("mx"))
    /\ vresult.smtp_valid # "None" =>
          (vsmtp /\ vresult.syntax_valid /\ vresult.mx_valid /\ Ran("smtp"))

\* the probe was asked for and did not run because the MX stage failed
C17_Witness ==
    /\ Validated /\ vsmtp /\ vstages = <<"syntax", "mx">>
    /\ vresult.syntax_valid /\ ~vresult.mx_valid /\ vresult.smtp_valid = "None"

\* the mail server was reached and answered the recipient command with 250
Accepted == vnetwork.smtp_mx = "records" /\ vnetwork.smtp = "250"
\* the mail server was reached and answered it with another code
Refused == vnetwork.smtp_mx = "records" /\ vnetwork.smtp = "550"

\* C18 as stated: the SMTP stage yields true only on a 250 and None, never
\* False, on every other outcome
C18_SmtpNeverFalse ==
    (Validated /\ Ran("smtp")) =>
        /\ (vresult.smtp_valid = "True") = Accepted
        /\ ~Accepted => vresult.smtp_valid = "None"

\* C18 amended: the SMTP stage yields true only on a 250, False on any other
\* response code to the recipient command, and None on a transport failure,
\* a timeout or a failed MX lookup
C18_SmtpTriState ==
    (Validated /\ Ran("smtp")) =>
        /\ (vresult.smtp_valid = "True") = Accepted
        /\ (vresult.smtp_valid = "False") = Refused
        /\ (~Accepted /\ ~Refused) => vresult.smtp_valid = "None"

\* the server refused the recipient and the address is reported invalid
C18_Witness ==
    /\ Validated /\ Ran("smtp") /\ vnetwork.smtp = "550"
    /\ vresult.smtp_valid = "False" /\ ~vresult.valid
    /\ vresult.error = "SMTP validation failed"

Malformed(e) ==
    \/ e = Empty
    \/ Count(e, "@") = 0
    \/ LocalPart(e) = <<>>
    \/ DomainPart(e) = <<>>
    \/ Count(DomainPart(e), ".") = 0

\* C20: a malformed email gets syntax_valid, mx_valid and valid false, and an
\* error reason, and no stage after the syntax stage runs for it
C20_MalformedRejected ==
    (Validated /\ Malformed(vemail)) =>
        /\ ~vresult.syntax_valid /\ ~vresult.mx_valid /\ ~vresult.valid
        /\ vresult.has_error /\ vresult.error # ""
        /\ ~Ran("mx") /\ ~Ran("smtp")

\* a domain without a dot, on a network that would deliver to it
C20_Witness ==
    /\ Validated /\ vemail = <<"jane", "@", "localhost">>
    /\ vnetwork.deliverable /\ vnetwork.mx = "records"
    /\ ~vresult.syntax_valid /\ vresult.error = "Invalid email syntax"

\* C21: every collected contact with a real address was validated and
\* carries the validator's syntax_valid, mx_valid and smtp_valid and the
\* overall valid verdict
C21_AllFlagsMerged ==
    \A k \in 1..Len(contacts) :
        is_real_address(contacts[k].email) =>
            /\ contacts[k].validated
            /\ {"syntax_valid", "mx_valid", "smtp_valid", "valid"} \subseteq DOMAIN contacts[k]

\* C22: a lookup with an empty name or an empty domain returns None and
\* issues no request and performs no sleep
C22_EmptyArgumentNoRequest ==
    (full_name = Empty \/ domain = Empty) =>
        /\ trace = <<>>
        /\ lpc # "request"
        /\ lpc = "done" => (lresult.kind = "None" /\ lraised = "")

\* the key is set, the name is given and the domain is empty
C22_Witness ==
    /\ lpc = "done" /\ api_key /\ full_name = <<"Jane">> /\ domain = Empty
    /\ lresult.kind = "None" /\ trace = <<>>


\* the article index at which a key first stands in the article list (0: never)
FirstAppearance(key) ==
    LET at == {k \in 1..Len(articles) :
                  /\ PairOf(articles[k]).name # Empty
                  /\ PairOf(articles[k]).domain # Empty
                  /\ author_key(PairOf(articles[k]).name, PairOf(articles[k]).domain) = key}
    IN  IF at = {} THEN 0 ELSE CHOOSE k \in at : \A j \in at : k <= j

KeyOfLookup(l) == author_key(l.name, l.domain)

\* the record cs[1] is the answer to the lookup l
AnswerTo(c, l) == c.full_name = l.name /\ c.domain = clean_domain(l.domain)

\* cs holds answers to some of the lookups ls, at most one each, in their order
RECURSIVE AnswersInOrder(_, _)
AnswersInOrder(cs, ls) ==
    IF cs = <<>> THEN TRUE
    ELSE IF ls = <<>> THEN FALSE
    ELSE IF AnswerTo(Head(cs), Head(ls)) THEN AnswersInOrder(Tail(cs), Tail(ls))
    ELSE AnswersInOrder(cs, Tail(ls))

\* C28: the processed keys are looked up in the order of their first
\* appearance in the article list, one lookup per key, and contacts holds at
\* most one record per lookup, in the order of the lookups
C28_FirstSeenOrder ==
    /\ \A j, k \in 1..Len(lookups) :
          j < k => /\ KeyOfLookup(lookups[j]) # KeyOfLookup(lookups[k])
                   /\ FirstAppearance(KeyOfLookup(lookups[j])) >= 1
                   /\ FirstAppearance(KeyOfLookup(lookups[j]))
                          < FirstAppearance(KeyOfLookup(lookups[k]))
    /\ {KeyOfLookup(lookups[k]) : k \in 1..Len(lookups)} = processed_authors
    /\ Len(contacts) <= Cardinality(processed_authors)
    /\ AnswersInOrder(contacts, lookups)

\* three articles, two keys: the second key stands twice and both keys
\* yielded a record
C28_Witness ==
    /\ pc = "exit" /\ Len(articles) = 3
    /\ Cardinality(processed_authors) = 2
    /\ Len(contacts) = 2
    /\ contacts[1].full_name = <<"Ann", "_", "Lee">>
    /\ contacts[2].full_name = <<"Jane">>

\* C29: a collected contact went through the validator exactly when its email
\* is non-empty and not the sentinel; a contact with the sentinel email has no
\* validity flag set, and the row of an article matched to it has
\* email_syntax_valid and email_mx_valid false
C29_ValidatedOnlyIfReal ==
    /\ \A k \in 1..Len(contacts) :
          /\ contacts[k].validated <=>
                (contacts[k].email # Empty /\ contacts[k].email # NotFound)
          /\ contacts[k].email = NotFound =>
                (~contacts[k].syntax_valid /\ ~contacts[k].mx_valid)
    /\ (MergeOver /\ pc # "raised") =>
          \A k \in 1..Len(enriched_articles) :
              LET m == matching_contact(contacts, articles[k])
              IN  (m # 0 /\ contacts[m].email = NotFound) =>
                      /\ enriched_articles[k].email = NotFound
                      /\ ~enriched_articles[k].email_syntax_valid
                      /\ ~enriched_articles[k].email_mx_valid

\* a run in which one lookup gave the sentinel and another a real address
C29_Witness ==
    /\ pc = "exit" /\ Len(contacts) = 2
    /\ contacts[1].email = NotFound /\ ~contacts[1].validated
    /\ contacts[2].email = Jane /\ contacts[2].validated
    /\ enriched_articles[1].email = NotFound
    /\ ~enriched_articles[1].email_syntax_valid

\* every request of this call was answered 429 and the call is over
GaveUpRateLimited ==
    /\ Returned /\ Requests # <<>>
    /\ \A k \in 1..Len(Requests) : Requests[k].n = 429

\* the last answer was a 200 without a person
NoMatchingResult ==
    /\ Returned /\ LastStatus = 200
    /\ (response.body.empty \/ ~response.body.person.truthy)

C25_ThreeArtifacts ==
    (pc = "exit" /\ csv_written /\ report_written
        /\ Len(articles) >= 1 /\ Len(contacts) >= 1) =>
        {"enriched_articles.csv", "contacts.csv", "scraping_report.txt"} \subseteq artifacts

\* the contacts that carry a real email
Found == {k \in 1..Len(contacts) : contacts[k].email # Empty /\ contacts[k].email # NotFound}

RECURSIVE CountsDescend(_)
CountsDescend(items) ==
    Len(items) <= 1 \/ (items[1].count >= items[2].count /\ CountsDescend(Tail(items)))

RECURSIVE TotalCount(_)
TotalCount(items) == IF items = <<>> THEN 0 ELSE Head(items).count + TotalCount(Tail(items))

\* C27: the written summary gives the two totals, the article counts per
\* source domain in descending order and summing to the article total, and
\* confidence buckets that hold every contact with a real email once and no
\* contact with the sentinel
C27_SummaryPartitions ==
    (pc = "exit" /\ report_written) =>
        /\ report.articles_processed = Len(articles)
        /\ report.contacts_found = Len(contacts)
        /\ CountsDescend(report.by_source)
        /\ TotalCount(report.by_source) = Len(articles)
        /\ report.high + report.medium + report.low = Cardinality(Found)
        /\ report.confidence_count = Cardinality(Found)


\* the writer called last
LastWriter == wcalls[Len(wcalls)]
WroteArticles == wcalls # <<>> /\ LastWriter = "write_articles_csv" /\ wreturn = "True"

\* the keys that occur in the records handed to the writer
DataKeys == UNION {Range(Keys(wrecords[k])) : k \in 1..Len(wrecords)}

FixedOrder ==
    <<"url", "title", "author", "source_domain", "date_publish", "language",
      "full_name", "email", "confidence", "contact_title",
      "email_syntax_valid", "email_mx_valid", "rocketreach_connected">>
Place(col) == CHOOSE j \in 1..Len(FixedOrder) : FixedOrder[j] = col

\* every column is one of the thirteen and they stand in the fixed order
InFixedOrder(cols) ==
    /\ \A j \in 1..Len(cols) : cols[j] \in Range(FixedOrder)
    /\ \A j, k \in 1..Len(cols) : j < k => Place(cols[j]) < Place(cols[k])

\* C23 as stated: the columns written by write_articles_csv are in the fixed
\* order, the six base columns are always there, a contact column is there
\* exactly when it occurs in the data, and there is no other column
C23_AllBaseColumnsFirst ==
    WroteArticles =>
        LET cols == wdisk.csv.columns
        IN  /\ InFixedOrder(cols)
            /\ \A j \in 1..6 : FixedOrder[j] \in Range(cols)
            /\ \A j \in 7..13 : FixedOrder[j] \in Range(cols) <=> FixedOrder[j] \in DataKeys

\* C23 amended: the columns written by write_articles_csv are in the fixed
\* order and there is no other column; url, title, author and source_domain
\* are always there, while date_publish, language and each contact column
\* are there exactly when they occur in the data; every row has a cell per column
C23_RequiredColumnsFirst ==
    WroteArticles =>
        LET cols == wdisk.csv.columns
        IN  /\ InFixedOrder(cols)
            /\ \A j \in 1..4 : FixedOrder[j] \in Range(cols)
            /\ \A j \in 5..13 : FixedOrder[j] \in Range(cols) <=> FixedOrder[j] \in DataKeys
            /\ Len(wdisk.csv.rows) = Len(wrecords)
            /\ \A k \in 1..Len(wdisk.csv.rows) : Len(wdisk.csv.rows[k]) = Len(cols)

\* two records without date_publish and language, one of them with contact
\* columns in another order
C23_Witness ==
    /\ WroteArticles /\ Len(wrecords) = 2
    /\ "date_publish" \notin DataKeys /\ "description" \notin DataKeys
    /\ wdisk.csv.columns = <<"url", "title", "author", "source_domain", "full_name", "email">>
    /\ wdisk.csv.rows[1] = <<"u3", "", "Jane", "", "", "">>

\* the frame a writer builds from the arguments of this run
FrameOf(writer) ==
    CASE writer = "write_articles_csv" -> articles_frame(wrecords)
      [] writer = "write_contacts_csv" -> contacts_frame(wcontacts)
      [] writer = "write_joined_csv" -> joined_frame(wrecords, wcontacts).df

\* C24: after a successful call of a table writer the file at the path holds
\* the columns and rows of one write of the arguments, whatever the path held
\* before and however often the writers were called on it
C24_ExportIdempotent ==
    (wcalls # <<>> /\ LastWriter # "write_summary_report" /\ wreturn = "True") =>
        /\ wdisk.csv.exists
        /\ wdisk.csv.columns = FrameOf(LastWriter).columns
        /\ wdisk.csv.rows = FrameOf(LastWriter).rows

\* the same two articles and two contacts joined twice to the same path
C24_Witness ==
    /\ wcalls = <<"write_joined_csv", "write_joined_csv">> /\ wreturn = "True"
    /\ Len(wrecords) = 2 /\ Len(wcontacts) = 2
    /\ wrecords[1] = wrecords[2] /\ Has(wrecords[1], "language")
    /\ Len(wdisk.csv.rows) = 4

\* C26: after a call of any writer with non-empty lists, whose records have
\* the columns the join is made on, the call returned True, the directory of
\* the path exists and the file is at the path
C26_WritersCreateDirectories ==
    (wcalls # <<>> /\ wrecords # <<>> /\ wcontacts # <<>>
        /\ ~joined_frame(wrecords, wcontacts).raised) =>
        /\ wreturn = "True"
        /\ (wdir = "" \/ wdir \in wdisk.dirs)
        /\ IF LastWriter = "write_summary_report" THEN wdisk.report ELSE wdisk.csv.exists


\* the seconds this call has slept so far
RECURSIVE TotalSleep(_)
TotalSleep(events) ==
    IF events = <<>> THEN 0
    ELSE (IF Head(events).ev = "sleep" THEN Head(events).n ELSE 0) + TotalSleep(Tail(events))

\* C31: whatever the service answers, a lookup issues at most 3 requests, is
\* over once the third is answered, never sleeps more than 300 seconds at
\* once nor more than 900 seconds in all
C31_BoundedLookup ==
    /\ Len(Requests) <= 3
    /\ lpc = "request" => (attempt < 3 /\ Len(Requests) = attempt)
    /\ Len(Requests) = 3 => lpc = "done"
    /\ \A k \in 1..Len(Sleeps) : Sleeps[k].n >= 0 /\ Sleeps[k].n <= 300
    /\ TotalSleep(trace) <= 900

\* three answers 429, each advising an hour: three waits of 300 seconds
C31_Witness ==
    /\ lpc = "done" /\ Len(Requests) = 3
    /\ response.retry_after = <<"3", "6", "0", "0">>
    /\ Len(Sleeps) = 3 /\ TotalSleep(trace) = 900

\* C35: once the lookup has returned, the last thing it did was not a sleep:
\* every sleep was followed by another attempt
C35_NoSleepInVain ==
    (lpc = "done" /\ trace # <<>>) => trace[Len(trace)].ev = "request"

\* every request of this call so far ended in a transport error
OnlyTransportErrors ==
    /\ Requests # <<>>
    /\ \A k \in 1..Len(Requests) : Requests[k].n = 0

\* C36: a lookup whose every attempt fails with a transport error waits 1
\* second after the first failure and 2 seconds after the second, and after
\* the third failure returns the sentinel without waiting
C36_TransportBackoff ==
    OnlyTransportErrors =>
        /\ Len(Requests) = 1 /\ lpc = "request" =>
              trace = <<[ev |-> "request", n |-> 0], [ev |-> "sleep", n |-> 1]>>
        /\ Len(Requests) = 2 =>
              /\ lpc = "request"
              /\ trace = <<[ev |-> "request", n |-> 0], [ev |-> "sleep", n |-> 1],
                           [ev |-> "request", n |-> 0], [ev |-> "sleep", n |-> 2]>>
        /\ lpc = "done" =>
              /\ trace = <<[ev |-> "request", n |-> 0], [ev |-> "sleep", n |-> 1],
                           [ev |-> "request", n |-> 0], [ev |-> "sleep", n |-> 2],
                           [ev |-> "request", n |-> 0]>>
              /\ lraised = "" /\ lresult.kind = "contact" /\ lresult = TheSentinel

C36_Witness ==
    /\ lpc = "done" /\ OnlyTransportErrors /\ Len(Requests) = 3
    /\ Len(Sleeps) = 2 /\ TotalSleep(trace) = 3
    /\ lresult.kind = "contact" /\ lresult.email = NotFound


\* the pairs enrich_with_emails has to look up: those of the articles with an
\* author and a domain
PairsOfArticles ==
    {PairOf(articles[k]) : k \in {j \in 1..Len(articles) :
        PairOf(articles[j]).name # Empty /\ PairOf(articles[j]).domain # Empty}}

FirstArticleOf(pair) ==
    CHOOSE k \in 1..Len(articles) :
        PairOf(articles[k]) = pair /\ \A j \in 1..(k - 1) : PairOf(articles[j]) # pair

\* C32: once enrich_with_emails is over the lookups issued are those of the
\* distinct pairs of the articles with an author and a domain, one lookup
\* per pair, in the order in which the pairs first stand in the article list
C32_LookupsArePairs ==
    (EnrichOver /\ ~no_enrich) =>
        /\ {lookups[k] : k \in 1..Len(lookups)} = PairsOfArticles
        /\ Len(lookups) = Cardinality(PairsOfArticles)
        /\ \A j, k \in 1..Len(lookups) :
              j < k => FirstArticleOf(lookups[j]) < FirstArticleOf(lookups[k])

\* C33: when every lookup of the run gave a record, the row of an article
\* carries the email of the record its pair's lookup returned, if that email
\* is a real one
C33_LookupReachesRow ==
    (MergeOver /\ pc # "raised" /\ Len(contacts) = Len(lookups)) =>
        \A k \in 1..Len(articles) : \A j \in 1..Len(lookups) :
            (lookups[j] = PairOf(articles[k])
                /\ contacts[j].email # Empty /\ contacts[j].email # NotFound) =>
                enriched_articles[k].email = contacts[j].email

\* C34: in a run in which no request was answered 200 the service-reachable
\* flag is false in every row
C34_FlagNeedsAnAnswer ==
    MergeOver => \A k \in 1..Len(enriched_articles) :
                    ~enriched_articles[k].rocketreach_connected


\* the runs in flight: the background threads whose subprocess is running
InFlight == {r \in RequestIds : thread[r] = "running"}

\* C38: at most one scraper run is in flight at any time, and a request
\* that was rejected has started nothing
C38_RunsSerialized ==
    /\ Cardinality(InFlight) <= 1
    /\ \A r \in RequestIds : handler[r] = "rejected" => thread[r] = "none"

\* C39: when the only background thread started so far has moved the status
\* to "done", the file the results endpoint serves was written by its run
C39_DoneServesOwnFile ==
    \A r \in RequestIds :
        (thread[r] = "finished" /\ scraping_status = "done" /\ returncode[r] = 0
            /\ \A o \in RequestIds : o # r => thread[o] = "none") =>
            csv_run = r


\* the domain as the lookup client cleans it (rocketreach.py line 102), on
\* the domains of RecordPool
CleanedName(dom) == IF dom = "www.nyt.com" THEN "nyt.com" ELSE dom

\* the (author, source_domain) pairs enrich_with_emails looks up for these records
LookedUp(records) ==
    {<<Cell(records[k], "author"), Cell(records[k], "source_domain")>> :
        k \in {j \in 1..Len(records) :
                  Cell(records[j], "author") # "" /\ Cell(records[j], "source_domain") # ""}}

\* cs is a contacts list enrich_with_emails can produce from the records:
\* each contact answers a pair of its own
Producible(records, cs) ==
    \E f \in [1..Len(cs) -> LookedUp(records)] :
        /\ \A j, k \in 1..Len(cs) : f[j] = f[k] => j = k
        /\ \A k \in 1..Len(cs) :
              /\ Cell(cs[k], "full_name") = f[k][1]
              /\ Cell(cs[k], "domain") = CleanedName(f[k][2])

\* C37: the file write_joined_csv wrote, for contacts that enrich_with_emails
\* can produce from the articles, has one row per article, in order
C37_OneRowPerArticle ==
    (wcalls # <<>> /\ LastWriter = "write_joined_csv" /\ wreturn = "True"
        /\ Producible(wrecords, wcontacts)) =>
        /\ Len(wdisk.csv.rows) = Len(wrecords)
        /\ \A k \in 1..Len(wrecords) :
              wdisk.csv.rows[k][1] = Cell(wrecords[k], DataFrame(wrecords).columns[1])

\* C40: after successful append_articles_csv calls on a path that held no
\* file, no two rows of the file have the same URL, and each row is the first
\* record ever appended for its URL
C40_FirstRowPerUrl ==
    wdisk.csv.exists =>
        LET file == wdisk.csv
            u == ColumnIndex(file, "url")
            t == ColumnIndex(file, "title")
        IN  /\ \A j, k \in 1..Len(file.rows) : file.rows[j][u] = file.rows[k][u] => j = k
            /\ \A k \in 1..Len(file.rows) :
                  \E i \in 1..Len(wappended) :
                      /\ Cell(wappended[i], "url") = file.rows[k][u]
                      /\ \A h \in 1..(i - 1) : Cell(wappended[h], "url") # file.rows[k][u]
                      /\ Cell(wappended[i], "title") = file.rows[k][t]

====
